---------------------------- MODULE Spec2Model ----------------------------
(***************************************************************************)
(* JV-LMS: assignment authoring (TeacherPortal), the Notes-Completion      *)
(* bracket extraction, and the auto-grading performed by the StudentPortal *)
(* at submission time.                                                     *)
(*                                                                         *)
(* Strings are sequences of one-character strings, so that trimming,       *)
(* splitting, sorting, lower-casing and the regular expression are         *)
(* computed character by character as the JavaScript does.  A value that   *)
(* is `undefined` in the program is the one-element sequence Undef, which  *)
(* no real string equals.                                                  *)
(***************************************************************************)
EXTENDS Integers, Sequences, FiniteSets, TLC

VARIABLES
    \* ---- handleSaveAssignment's bracket extraction applied to one content
    cContent,            \* the content of the group being processed
    cQuestions,          \* the group's question list
    cPc,                 \* "start" before the processing has run, then "done"
    \* ---- StudentPortal
    selectedAssignment,  \* the assignment being taken, or None
    answers,             \* Record<string,string>: question id -> answer
    submitted,           \* the submissions handed to onSubmit, in call order
    showReportModal,     \* the report modal is open
    reportSubmission,    \* the submission shown in the report modal, or None
    \* ---- TeacherPortal (assignment modal and question-group builder)
    now,                 \* Date.now()
    showAssignmentModal,
    showPreviewModal,
    editingAssignmentId, \* id of the assignment being edited, or None
    newAssignment,       \* the draft's scalar fields
    tempQuestionGroups,  \* the draft's question groups
    draftAlias,          \* draftAlias[i] = j: draft group i is the same object
                         \* as group j of the in-memory assignment being
                         \* edited (0: an object of the draft alone)
    tempQuestionText,    \* the "add question" form
    tempCorrectAnswer,
    assignments,         \* the teacher's in-memory list (last snapshot)
    db,                  \* the persisted `assignments` collection
    snapshotPending,     \* a write has not been delivered to onSnapshot yet
    alertMessage,        \* what the handler that ran last told the teacher
                         \* with alert(), "" when it raised no alert
    \* ---- the `submissions` collection and the sessions that read it
    subDb,               \* the persisted `submissions` collection
    submissions,         \* the student's in-memory list (last snapshot)
    teacherSubmissions,  \* the teacher's in-memory list (last snapshot)
    selectedSubmission,  \* the submission the teacher is grading, or None
    \* ---- classes and folders (`classes`, `assignmentGroups` collections)
    selectedClassId,     \* the class the teacher has opened, "" for null
    viewingGroupId,      \* the folder the teacher has opened, "" for null
    classesDb,           \* ids of the persisted `classes` collection
    classes,             \* the teacher's in-memory class ids (last snapshot)
    groupsDb,            \* the persisted `assignmentGroups` collection
    assignmentGroups,    \* the teacher's in-memory list (last snapshot)
    localGroups,         \* the folder list shown, reordered while dragging
    draggedGroupIndex,   \* position of the folder being dragged, 0 for null
    consoleError,        \* the last reorder ended in console.error
    \* ---- TeacherPortal (forms of the builder)
    tempMcqOptions,      \* the option list of the "add question" form
    tempMaxSelection,    \* its "answers to select"
    showJsonImportModal, \* the "Import JSON" dialog is open
    \* ---- the students (`users` collection, role STUDENT)
    studentsDb,          \* the persisted student documents
    students             \* the teacher's in-memory list (last snapshot)

compileVars == <<cContent, cQuestions, cPc>>
studentVars == <<selectedAssignment, answers, submitted, showReportModal,
                 reportSubmission>>
teacherVars == <<now, showAssignmentModal, showPreviewModal,
                 editingAssignmentId, newAssignment, tempQuestionGroups,
                 draftAlias, tempQuestionText, tempCorrectAnswer,
                 assignments, db, snapshotPending, alertMessage>>
storeVars == <<subDb, submissions, teacherSubmissions, selectedSubmission>>
folderVars == <<selectedClassId, viewingGroupId, classesDb, classes, groupsDb,
                assignmentGroups, localGroups, draggedGroupIndex,
                consoleError>>
formVars == <<tempMcqOptions, tempMaxSelection, showJsonImportModal>>
rosterVars == <<studentsDb, students>>
vars == <<compileVars, studentVars, teacherVars, storeVars, folderVars,
          formVars, rosterVars>>

\* A nullable object is a sequence of at most one element.
None == <<>>
Some(x) == <<x>>
Undef == <<"undefined">>

\* JavaScript truthiness of an optional string: undefined and "" are falsy.
Truthy(s) == s # Undef /\ s # <<>>

\* (x || "") for an optional string x
OrEmpty(s) == IF Truthy(s) THEN s ELSE <<>>

(***************************************************************************)
(* Bounds of the model.                                                    *)
(***************************************************************************)
MaxContentLen == 6   \* longest content string handed to the extraction
MaxAnswerLen == 3    \* longest student answer typed into the grading sample
MaxKeyLen == 3       \* longest answer key of the grading sample
MaxGroups == 1       \* question groups in a draft
MaxQuestions == 1    \* questions added by hand to one group
MaxTime == 3         \* ticks of Date.now() the model follows
MaxAssignments == 1  \* assignments created in the collection

(***************************************************************************)
(* Characters.                                                             *)
(***************************************************************************)
LineTerminators == {"\n"}
WhiteSpace == {" ", "\n"}

\* UTF-16 code unit of the characters the model uses (Array.prototype.sort
\* without a comparator orders strings by code units).
Code(c) ==
    CASE c = "\n" -> 10
      [] c = " " -> 32
      [] c = "," -> 44
      [] c = "A" -> 65
      [] c = "B" -> 66
      [] c = "C" -> 67
      [] c = "D" -> 68
      [] c = "[" -> 91
      [] c = "]" -> 93
      [] c = "a" -> 97
      [] c = "d" -> 100
      [] OTHER -> 120

\* String.prototype.toLowerCase, one character
LowerChar(c) ==
    CASE c = "A" -> "a"
      [] c = "D" -> "d"
      [] OTHER -> c

toLowerCase(s) == [i \in 1..Len(s) |-> LowerChar(s[i])]

\* All strings over alphabet A of length at most n
StringsUpTo(A, n) == UNION {[1..k -> A] : k \in 0..n}

RECURSIVE TrimStart(_)
TrimStart(s) ==
    IF s # <<>> /\ Head(s) \in WhiteSpace THEN TrimStart(Tail(s)) ELSE s

RECURSIVE TrimEnd(_)
TrimEnd(s) ==
    IF s # <<>> /\ s[Len(s)] \in WhiteSpace
    THEN TrimEnd(SubSeq(s, 1, Len(s) - 1))
    ELSE s

\* String.prototype.trim
trim(s) == TrimEnd(TrimStart(s))

\* String.prototype.split(','): the pieces between the commas, at least one
RECURSIVE SplitFrom(_, _, _)
SplitFrom(s, i, cur) ==
    IF i > Len(s) THEN <<cur>>
    ELSE IF s[i] = "," THEN <<cur>> \o SplitFrom(s, i + 1, <<>>)
    ELSE SplitFrom(s, i + 1, Append(cur, s[i]))

split(s) == SplitFrom(s, 1, <<>>)

\* a < b in code-unit order
RECURSIVE StrLess(_, _)
StrLess(a, b) ==
    IF b = <<>> THEN FALSE
    ELSE IF a = <<>> THEN TRUE
    ELSE IF Code(Head(a)) # Code(Head(b)) THEN Code(Head(a)) < Code(Head(b))
    ELSE StrLess(Tail(a), Tail(b))

\* Array.prototype.sort() of a list of strings (insertion into a sorted list)
RECURSIVE InsertSorted(_, _)
InsertSorted(x, l) ==
    IF l = <<>> THEN <<x>>
    ELSE IF StrLess(x, Head(l)) THEN <<x>> \o l
    ELSE <<Head(l)>> \o InsertSorted(x, Tail(l))

RECURSIVE sort(_)
sort(l) == IF l = <<>> THEN <<>> ELSE InsertSorted(Head(l), sort(Tail(l)))

\* Array.prototype.join(',')
RECURSIVE join(_)
join(l) ==
    IF l = <<>> THEN <<>>
    ELSE IF Len(l) = 1 THEN l[1]
    ELSE l[1] \o <<",">> \o join(Tail(l))

\* Number.prototype.toString of a natural number
Digit(d) == <<"0", "1", "2", "3", "4", "5", "6", "7", "8", "9">>[d + 1]

RECURSIVE NumToString(_)
NumToString(n) ==
    IF n < 10 THEN <<Digit(n)>>
    ELSE Append(NumToString(n \div 10), Digit(n % 10))

(***************************************************************************)
(* The regular expression /\[(.*?)\]/ : a "[", the shortest run of         *)
(* characters other than line terminators, and a "]".                      *)
(***************************************************************************)
\* The lazy group: from position k on, the first "]" reached before a line
\* terminator; 0 when there is none.
RECURSIVE LazyEnd(_, _)
LazyEnd(s, k) ==
    IF k > Len(s) THEN 0
    ELSE IF s[k] = "]" THEN k
    ELSE IF s[k] \in LineTerminators THEN 0
    ELSE LazyEnd(s, k + 1)

\* The match starting exactly at position p: the position of its "]", or 0.
MatchAt(s, p) == IF s[p] = "[" THEN LazyEnd(s, p + 1) ELSE 0

\* [...content.matchAll(/\[(.*?)\]/g)]: the matches from position p on, each
\* as [m0: the whole match, m1: the captured group]
RECURSIVE MatchAllFrom(_, _)
MatchAllFrom(s, p) ==
    IF p > Len(s) THEN <<>>
    ELSE IF MatchAt(s, p) # 0
    THEN <<[m0 |-> SubSeq(s, p, MatchAt(s, p)),
            m1 |-> SubSeq(s, p + 1, MatchAt(s, p) - 1)]>>
         \o MatchAllFrom(s, MatchAt(s, p) + 1)
    ELSE MatchAllFrom(s, p + 1)

matchAll(s) == MatchAllFrom(s, 1)

\* tempQuestionText.match(/\[(.*?)\]/): the first match, or None
match(s) == IF matchAll(s) = <<>> THEN None ELSE Some(matchAll(s)[1])


(***************************************************************************)
(* Data shapes.                                                            *)
(***************************************************************************)
NoNumber == -1            \* an optional number that is undefined
UndefList == <<Undef>>    \* an optional list of strings that is undefined

QuestionTypes ==
    {"MCQ", "FILL_IN_BLANKS", "NOTES_COMPLETION", "TRUE_FALSE_NG", "YES_NO_NG",
     "MATCHING_HEADINGS", "MATCHING_FEATURES", "MATCHING_INFORMATION",
     "MATCHING_SENTENCE_ENDINGS"}

AssignmentTypes == {"READING", "LISTENING", "WRITING", "SPEAKING"}

\* A question id is <<prefix, Date.now(), a, b>>; (a, b) stands for the random
\* suffix of the ids that carry one (group index and position, both >= 1).
QuestionId(t) == <<"q", t, 0, 0>>
GroupId(t) == <<"qg", t, 0, 0>>
AssignmentId(t) == <<"a", t, 0, 0>>

(***************************************************************************)
(* Notes-Completion: the question list generated from a group's content.   *)
(***************************************************************************)
\* handleSaveAssignment: matches.map((m, i) => ({id, text: m[0], type,
\* correctAnswer: m[1]})) over [...content.matchAll(/\[(.*?)\]/g)]
SaveGeneratedQuestions(content, t, gi) ==
    LET matches == matchAll(content) IN
    [i \in 1..Len(matches) |->
        [id |-> <<"q", t, gi, i>>,
         text |-> matches[i].m0,
         type |-> "NOTES_COMPLETION",
         options |-> UndefList,
         correctAnswer |-> matches[i].m1,
         maxSelection |-> NoNumber]]

\* getPreviewAssignment: the same map with ids q_prev_<i>, i from 0
PreviewGeneratedQuestions(content) ==
    LET matches == matchAll(content) IN
    [i \in 1..Len(matches) |->
        [id |-> <<"q_prev", 0, 0, i - 1>>,
         text |-> matches[i].m0,
         type |-> "NOTES_COMPLETION",
         options |-> UndefList,
         correctAnswer |-> matches[i].m1,
         maxSelection |-> NoNumber]]

\* handleSaveAssignment: tempQuestionGroups.map(group => ...); a group is
\* rebuilt only if it is NOTES_COMPLETION and its content is truthy, any
\* other group is returned as it is
processedQuestionGroups(groups, t) ==
    [gi \in 1..Len(groups) |->
        IF groups[gi].type = "NOTES_COMPLETION" /\ Truthy(groups[gi].content)
        THEN [groups[gi] EXCEPT !.questions =
                 SaveGeneratedQuestions(groups[gi].content, t, gi)]
        ELSE groups[gi]]

\* A faulty getPreviewAssignment: the content's truthiness is not tested
previewQuestionGroupsUnguarded(groups) ==
    [gi \in 1..Len(groups) |->
        IF groups[gi].type = "NOTES_COMPLETION"
        THEN [groups[gi] EXCEPT !.questions =
                 PreviewGeneratedQuestions(OrEmpty(groups[gi].content))]
        ELSE groups[gi]]

\* getPreviewAssignment: the same map as the save's, with the preview's ids
previewQuestionGroups(groups) ==
    [gi \in 1..Len(groups) |->
        IF groups[gi].type = "NOTES_COMPLETION" /\ Truthy(groups[gi].content)
        THEN [groups[gi] EXCEPT !.questions =
                 PreviewGeneratedQuestions(groups[gi].content)]
        ELSE groups[gi]]

(***************************************************************************)
(* Auto-grading (StudentPortal.handleSubmit).                              *)
(***************************************************************************)
\* (q.maxSelection || 1)
MaxSelectionOr1(q) ==
    IF q.maxSelection = NoNumber \/ q.maxSelection = 0 THEN 1
    ELSE q.maxSelection

\* s.split(',').map(s => s.trim()).sort().join(',')
SortedJoined(s) ==
    LET parts == split(s) IN
    join(sort([i \in 1..Len(parts) |-> trim(parts[i])]))

\* Faulty comparisons: without the lower-casing branch, without the
\* multi-select branch, and with lower-casing in the last branch
IsCorrectNoCaseFold(q, studentAns, correctAns) ==
    IF q.type = "MCQ" /\ MaxSelectionOr1(q) > 1
    THEN SortedJoined(studentAns) = SortedJoined(correctAns)
    ELSE studentAns = correctAns

IsCorrectNoMultiSelect(q, studentAns, correctAns) ==
    IF q.type \in {"FILL_IN_BLANKS", "NOTES_COMPLETION"}
    THEN toLowerCase(studentAns) = toLowerCase(correctAns)
    ELSE studentAns = correctAns

IsCorrectAlwaysCaseFold(q, studentAns, correctAns) ==
    IF q.type = "MCQ" /\ MaxSelectionOr1(q) > 1
    THEN SortedJoined(studentAns) = SortedJoined(correctAns)
    ELSE toLowerCase(studentAns) = toLowerCase(correctAns)

\* The comparison of one trimmed answer against one trimmed key
IsCorrect(q, studentAns, correctAns) ==
    IF q.type = "MCQ" /\ MaxSelectionOr1(q) > 1
    THEN SortedJoined(studentAns) = SortedJoined(correctAns)
    ELSE IF q.type \in {"FILL_IN_BLANKS", "NOTES_COMPLETION"}
    THEN toLowerCase(studentAns) = toLowerCase(correctAns)
    ELSE studentAns = correctAns

\* answers[q.id]: undefined when the map has no entry for the question
AnswerOf(ans, q) == IF q.id \in DOMAIN ans THEN ans[q.id] ELSE Undef

\* A faulty read of the answer: answers[q.id] without the || ""
AnswerOrEmptyUnguarded(ans, q) == AnswerOf(ans, q)

\* (answers[q.id] || "")
AnswerOrEmpty(ans, q) == OrEmpty(AnswerOf(ans, q))

\* (q.correctAnswer || "")
KeyOrEmpty(q) == OrEmpty(q.correctAnswer)

\* x.trim() throws a TypeError when x is undefined
CanTrim(s) == s # Undef

\* (answers[q.id] || "").trim()
StudentAns(ans, q) == trim(AnswerOrEmpty(ans, q))

\* (q.correctAnswer || "").trim()
CorrectAns(q) == trim(KeyOrEmpty(q))

\* Whether the forEach over the questions throws
GradingThrows(ans, qs) ==
    \E i \in 1..Len(qs) :
        \/ ~CanTrim(AnswerOrEmpty(ans, qs[i]))
        \/ ~CanTrim(KeyOrEmpty(qs[i]))

\* The QuestionResult stored in report[q.id]
GradeQuestion(ans, q) ==
    [questionId |-> q.id,
     isCorrect |-> IsCorrect(q, StudentAns(ans, q), CorrectAns(q)),
     studentAnswer |-> StudentAns(ans, q),
     correctAnswer |-> CorrectAns(q)]

\* groups.flatMap(g => g.questions)
RECURSIVE FlatMapQuestions(_)
FlatMapQuestions(groups) ==
    IF groups = <<>> THEN <<>>
    ELSE Head(groups).questions \o FlatMapQuestions(Tail(groups))

\* A faulty flattening: the first group's questions only
AllQuestionsFirstGroupOnly(a) ==
    IF a.hasQuestionGroups
    THEN (IF a.questionGroups = <<>> THEN <<>>
          ELSE Head(a.questionGroups).questions)
    ELSE IF a.hasQuestions THEN a.questions ELSE <<>>

\* questionGroups ? questionGroups.flatMap(g => g.questions) : questions || []
AllQuestions(a) ==
    IF a.hasQuestionGroups THEN FlatMapQuestions(a.questionGroups)
    ELSE IF a.hasQuestions THEN a.questions ELSE <<>>

\* correctCount after the forEach: one increment per question graded correct
RECURSIVE CorrectCount(_, _)
CorrectCount(ans, qs) ==
    IF qs = <<>> THEN 0
    ELSE (IF GradeQuestion(ans, Head(qs)).isCorrect THEN 1 ELSE 0)
         + CorrectCount(ans, Tail(qs))

\* report after the forEach: report[q.id] = result, a later question of the
\* same id overwriting an earlier one
Report(ans, qs) ==
    [id \in {qs[i].id : i \in 1..Len(qs)} |->
        LET last == CHOOSE i \in 1..Len(qs) :
                        /\ qs[i].id = id
                        /\ \A k \in (i + 1)..Len(qs) : qs[k].id # id
        IN GradeQuestion(ans, qs[last])]

\* `${correctCount}/${totalQuestions}`
GradeString(c, t) == NumToString(c) \o <<"/">> \o NumToString(t)

\* A faulty test: every skill type is auto-graded
AutoGradedEveryType(a) == TRUE

\* selectedAssignment.type === READING || === LISTENING
AutoGraded(a) == a.type = "READING" \/ a.type = "LISTENING"

NoReport == [defined |-> FALSE, of |-> <<>>]

\* The Submission object handleSubmit builds
BuildSubmission(a, ans, sid, studentId) ==
    LET qs == AllQuestions(a) IN
    [id |-> sid,
     assignmentId |-> a.id,
     studentId |-> studentId,
     answers |-> ans,
     status |-> IF AutoGraded(a) THEN "GRADED" ELSE "SUBMITTED",
     grade |-> IF AutoGraded(a)
               THEN GradeString(CorrectCount(ans, qs), Len(qs))
               ELSE Undef,
     report |-> IF AutoGraded(a)
                THEN [defined |-> TRUE, of |-> Report(ans, qs)]
                ELSE NoReport]

\* user.id of the logged-in student
UserId == "student1"

\* AssignmentViewer's onAnswerChange: setAnswers(prev => ({...prev, [id]: val}))
onAnswerChange(id, val) ==
    /\ selectedAssignment # None
    /\ answers' = [k \in DOMAIN answers \cup {id} |->
                      IF k = id THEN val ELSE answers[k]]
    /\ UNCHANGED <<selectedAssignment, submitted, showReportModal,
                   reportSubmission>>

\* An exception thrown while grading rejects the async handler before
\* onSubmit is called and before any state is set: no step then.
handleSubmit ==
    /\ selectedAssignment # None
    /\ AutoGraded(selectedAssignment[1])
           => ~GradingThrows(answers, AllQuestions(selectedAssignment[1]))
    /\ LET submission ==
               BuildSubmission(selectedAssignment[1], answers,
                               <<"s", Len(submitted) + 1>>, UserId)
       IN /\ submitted' = Append(submitted, submission)   \* onSubmit(submission)
          /\ IF submission.status = "GRADED"
             THEN /\ reportSubmission' = Some(submission)
                  /\ showReportModal' = TRUE
             ELSE UNCHANGED <<reportSubmission, showReportModal>>
    /\ selectedAssignment' = None
    /\ answers' = <<>>


\* The keystroke that changes the answer of question id: a character typed at
\* the end of the field (up to maxLen characters), or the last one deleted.
TypeAnswer(id, alphabet, maxLen) ==
    LET cur == IF id \in DOMAIN answers THEN answers[id] ELSE <<>> IN
    \/ \E c \in alphabet :
          /\ Len(cur) < maxLen
          /\ onAnswerChange(id, Append(cur, c))
    \/ /\ cur # <<>>
       /\ onAnswerChange(id, SubSeq(cur, 1, Len(cur) - 1))

(***************************************************************************)
(* Assignments as the student receives them.                               *)
(***************************************************************************)
Question(id, type, key, maxSel, opts) ==
    [id |-> id, text |-> <<"Q">>, type |-> type, options |-> opts,
     correctAnswer |-> key, maxSelection |-> maxSel]

Group(id, type, content, qs) ==
    [id |-> id, type |-> type, title |-> "Questions", instruction |-> type,
     content |-> content, headingList |-> <<>>, matchOptions |-> <<>>,
     questions |-> qs]

Assignment(id, type, hasGroups, groups, hasQuestions, qs) ==
    [id |-> id, classId |-> "c1", groupId |-> "", title |-> "T",
     type |-> type, dueDate |-> "D",
     hasQuestionGroups |-> hasGroups, questionGroups |-> groups,
     hasQuestions |-> hasQuestions, questions |-> qs,
     writingTaskType |-> "", writingPrompt |-> "", timeLimit |-> NoNumber,
     passageContent |-> "", videoUrl |-> "", writingImage |-> ""]

\* setNewAssignment({ type: AssignmentType.READING }): every other field of
\* the draft is undefined.  (The passage editor, the video URL input and the
\* image upload are left untouched throughout: passageContent, videoUrl and
\* writingImage stay undefined.)
BlankDraft ==
    [type |-> "READING", title |-> "", dueDate |-> "", classId |-> "",
     groupId |-> "", writingTaskType |-> "", writingPrompt |-> "",
     timeLimit |-> NoNumber, passageContent |-> "", videoUrl |-> "",
     writingImage |-> ""]

(***************************************************************************)
(* The teacher's state after construction (no snapshot received yet).      *)
(***************************************************************************)
InitTeacher ==
    /\ now = 0
    /\ showAssignmentModal = FALSE
    /\ showPreviewModal = FALSE
    /\ editingAssignmentId = None
    /\ newAssignment = [BlankDraft EXCEPT !.writingTaskType = "TASK_1"]
    /\ tempQuestionGroups = <<>>
    /\ draftAlias = <<>>
    /\ tempQuestionText = <<>>
    /\ tempCorrectAnswer = Undef
    /\ assignments = <<>>
    /\ db = <<>>
    /\ snapshotPending = FALSE
    /\ alertMessage = ""
    /\ tempMcqOptions = <<>>
    /\ tempMaxSelection = 1
    /\ showJsonImportModal = FALSE
    /\ studentsDb = <<>>
    /\ students = <<>>

InitStudent ==
    /\ selectedAssignment = None
    /\ answers = <<>>
    /\ submitted = <<>>
    /\ showReportModal = FALSE
    /\ reportSubmission = None

InitCompileIdle ==
    /\ cContent = <<>>
    /\ cQuestions = <<>>
    /\ cPc = "done"

InitStore ==
    /\ subDb = <<>>
    /\ submissions = <<>>
    /\ teacherSubmissions = <<>>
    /\ selectedSubmission = None

\* a folder document of the `assignmentGroups` collection
Folder(id, classId, order) == [id |-> id, classId |-> classId, order |-> order]

\* [...].sort((a, b) => (a.order || 0) - (b.order || 0)): a stable sort
RECURSIVE InsertByOrder(_, _)
InsertByOrder(sorted, g) ==
    IF sorted = <<>> THEN <<g>>
    ELSE IF g.order < Head(sorted).order THEN <<g>> \o sorted
    ELSE <<Head(sorted)>> \o InsertByOrder(Tail(sorted), g)

RECURSIVE SortByOrder(_)
SortByOrder(groups) ==
    IF groups = <<>> THEN <<>>
    ELSE InsertByOrder(SortByOrder(SubSeq(groups, 1, Len(groups) - 1)),
                       groups[Len(groups)])

\* the effect that syncs localGroups: the folders of the selected class in
\* order, left as it is while no class is selected
SyncedLocalGroups(groups, classId, current) ==
    IF classId = "" THEN current
    ELSE SortByOrder(SelectSeq(groups, LAMBDA g : g.classId = classId))

\* The collections hold one class with two folders, and the teacher's
\* session has received them.
InitFolderStore ==
    /\ classesDb = {"c1"}
    /\ classes = {"c1"}
    /\ groupsDb = <<Folder("g1", "c1", 0), Folder("g2", "c1", 1)>>
    /\ assignmentGroups = groupsDb
    /\ draggedGroupIndex = 0
    /\ consoleError = FALSE

\* the teacher's navigation state after construction: the dashboard
InitDashboard ==
    /\ InitFolderStore
    /\ selectedClassId = ""
    /\ viewingGroupId = ""
    /\ localGroups = <<>>

\* the teacher has opened class "c1" and, in it, folder "g1"
InitInFolder ==
    /\ InitFolderStore
    /\ selectedClassId = "c1"
    /\ viewingGroupId = "g1"
    /\ localGroups = SyncedLocalGroups(assignmentGroups, "c1", <<>>)

(***************************************************************************)
(* SpecCompile: handleSaveAssignment's processing of one NOTES_COMPLETION   *)
(* group, for every content string over CompileAlphabet up to              *)
(* MaxContentLen.                                                          *)
(***************************************************************************)
CompileAlphabet == {"[", "]", "a", "\n"}

\* what the group may hold before the save: nothing, or a question added by
\* hand while the group had another type (handleGroupTypeChange keeps it)
PriorQuestions ==
    {<<>>, <<Question(QuestionId(0), "MCQ", <<"A">>, 1, <<>>)>>}

InitCompile ==
    /\ cContent \in StringsUpTo(CompileAlphabet, MaxContentLen)
    /\ cQuestions \in PriorQuestions
    /\ cPc = "start"
    /\ InitStudent
    /\ InitTeacher
    /\ InitStore
    /\ InitDashboard

Compile ==
    /\ cPc = "start"
    /\ cQuestions' =
          processedQuestionGroups(
              <<Group(GroupId(0), "NOTES_COMPLETION", cContent, cQuestions)>>,
              now)[1].questions
    /\ cPc' = "done"
    /\ UNCHANGED <<cContent, studentVars, teacherVars, storeVars, folderVars, formVars,
                   rosterVars>>

NextCompile == Compile

SpecCompile == InitCompile /\ [][NextCompile]_vars

(***************************************************************************)
(* SpecGrade: one question of every type, with every answer key over       *)
(* GradeAlphabet up to MaxKeyLen (or none), against every answer typed     *)
(* over GradeAlphabet up to MaxAnswerLen (or none).                        *)
(***************************************************************************)
GradeAlphabet == {"A", "a", ",", " "}

GradeQuestions ==
    {Question(QuestionId(1), type, key, maxSel, UndefList) :
        type \in QuestionTypes \ {"MCQ"},
        key \in StringsUpTo(GradeAlphabet, MaxKeyLen) \cup {Undef},
        maxSel \in {NoNumber}}
    \cup
    {Question(QuestionId(1), "MCQ", key, maxSel, opts) :
        key \in StringsUpTo(GradeAlphabet, MaxKeyLen) \cup {Undef},
        maxSel \in {NoNumber, 1, 2},
        opts \in {<<<<"x">>, <<"y">>>>}}

InitGrade ==
    /\ \E q \in GradeQuestions :
          selectedAssignment =
              Some(Assignment(AssignmentId(1), "READING", TRUE,
                              <<Group(GroupId(1), q.type, Undef, <<q>>)>>,
                              FALSE, <<>>))
    /\ answers = <<>>
    /\ submitted = <<>>
    /\ showReportModal = FALSE
    /\ reportSubmission = None
    /\ InitCompileIdle
    /\ InitTeacher
    /\ InitStore
    /\ InitDashboard

GradeType ==
    /\ TypeAnswer(QuestionId(1), GradeAlphabet, MaxAnswerLen)
    /\ UNCHANGED <<compileVars, teacherVars, storeVars, folderVars, formVars,
                   rosterVars>>

GradeSubmit == handleSubmit /\ UNCHANGED <<compileVars, teacherVars, storeVars, folderVars, formVars,
                                           rosterVars>>

NextGrade == GradeType \/ GradeSubmit

SpecGrade == InitGrade /\ [][NextGrade]_vars

(***************************************************************************)
(* SpecSubmit: assignments of every skill type and every shape (question   *)
(* groups of 0..MaxSubQuestions questions, or the legacy flat list, or     *)
(* neither), answered or not question by question.                         *)
(***************************************************************************)
MaxSubGroups == 2
MaxSubQuestions == 2

SubmitAlphabet == {"A"}

\* The n-th question of a sample assignment (n counts over the whole
\* assignment): the types and keys rotate so that the answer "A" is right for
\* some and wrong for others.
SampleQuestion(n) ==
    CASE n % 4 = 1 -> Question(QuestionId(n), "MCQ", <<"A">>, 2,
                               <<<<"x">>, <<"y">>>>)
      [] n % 4 = 2 -> Question(QuestionId(n), "FILL_IN_BLANKS", <<"a">>,
                               NoNumber, UndefList)
      [] n % 4 = 3 -> Question(QuestionId(n), "TRUE_FALSE_NG", <<"a">>,
                               NoNumber, UndefList)
      [] OTHER -> Question(QuestionId(n), "YES_NO_NG", Undef, NoNumber,
                           UndefList)

\* sizes: the number of questions of each group
RECURSIVE SampleGroups(_, _)
SampleGroups(sizes, first) ==
    IF sizes = <<>> THEN <<>>
    ELSE <<Group(GroupId(Len(sizes)), "MCQ", Undef,
                 [i \in 1..Head(sizes) |-> SampleQuestion(first + i - 1)])>>
         \o SampleGroups(Tail(sizes), first + Head(sizes))

SubmitAssignments ==
    {Assignment(AssignmentId(1), type, TRUE, SampleGroups(sizes, 1),
                FALSE, <<>>) :
        type \in AssignmentTypes,
        sizes \in UNION {[1..k -> 0..MaxSubQuestions] : k \in 0..MaxSubGroups}}
    \cup
    {Assignment(AssignmentId(1), type, FALSE, <<>>, TRUE,
                [i \in 1..n |-> SampleQuestion(i)]) :
        type \in AssignmentTypes, n \in 0..MaxSubQuestions}
    \cup
    {Assignment(AssignmentId(1), type, FALSE, <<>>, FALSE, <<>>) :
        type \in AssignmentTypes}

InitSubmit ==
    /\ \E a \in SubmitAssignments : selectedAssignment = Some(a)
    /\ answers = <<>>
    /\ submitted = <<>>
    /\ showReportModal = FALSE
    /\ reportSubmission = None
    /\ InitCompileIdle
    /\ InitTeacher
    /\ InitStore
    /\ InitDashboard

SubmitType ==
    /\ selectedAssignment # None
    /\ \E i \in 1..Len(AllQuestions(selectedAssignment[1])) :
          TypeAnswer(AllQuestions(selectedAssignment[1])[i].id,
                     SubmitAlphabet, 1)
    /\ UNCHANGED <<compileVars, teacherVars, storeVars, folderVars, formVars,
                   rosterVars>>

SubmitSubmit == handleSubmit /\ UNCHANGED <<compileVars, teacherVars, storeVars, folderVars, formVars,
                                            rosterVars>>

NextSubmit == SubmitType \/ SubmitSubmit

SpecSubmit == InitSubmit /\ [][NextSubmit]_vars


(***************************************************************************)
(* SpecStore: one student taking the assignments of StoreAssignments, the  *)
(* `submissions` collection the submissions are added to, the snapshots    *)
(* that bring the collection to the student's and the teacher's session,   *)
(* and the teacher grading the pending submissions.                        *)
(***************************************************************************)
MaxSubmissions == 2   \* submissions added to the collection

\* the assignments of the student's class: one auto-graded, one not
StoreAssignments ==
    {Assignment(AssignmentId(1), "READING", TRUE,
                <<Group(GroupId(1), "MCQ", Undef,
                        <<Question(QuestionId(1), "MCQ", <<"A">>, 1,
                                   <<<<"x">>, <<"y">>>>)>>)>>,
                FALSE, <<>>),
     Assignment(AssignmentId(2), "WRITING", FALSE, <<>>, FALSE, <<>>)}

\* the field the student types into: the one question, or the essay
StoreAnswerId(a) ==
    IF AllQuestions(a) # <<>> THEN AllQuestions(a)[1].id
    ELSE <<"essay", 0, 0, 0>>

TeacherGrades == {<<"7">>}
TeacherFeedbacks == {<<"o", "k">>}

\* A faulty write: the grade is dropped from the document
handleSubmitAssignmentNoGrade(docs, submission) ==
    Append(docs,
           [id |-> <<"doc", Len(docs) + 1>>,
            assignmentId |-> submission.assignmentId,
            studentId |-> submission.studentId,
            answers |-> submission.answers,
            status |-> submission.status,
            grade |-> Undef,
            report |-> submission.report,
            feedback |-> Undef])

\* App.handleSubmitAssignment: const {id, ...data} = safeSubmission;
\* addDoc(collection(db, 'submissions'), data).  The document gets a fresh
\* id, under which the snapshots deliver it.
handleSubmitAssignment(docs, submission) ==
    Append(docs,
           [id |-> <<"doc", Len(docs) + 1>>,
            assignmentId |-> submission.assignmentId,
            studentId |-> submission.studentId,
            answers |-> submission.answers,
            status |-> submission.status,
            grade |-> submission.grade,
            report |-> submission.report,
            feedback |-> Undef])

\* App.handleGradeSubmission: updateDoc(subRef, {status: 'GRADED', grade,
\* feedback}); it fails, writing nothing, when the document does not exist
handleGradeSubmission(docs, id, grade, feedback) ==
    [k \in DOMAIN docs |->
        IF docs[k].id = id
        THEN [docs[k] EXCEPT !.status = "GRADED", !.grade = grade,
                             !.feedback = feedback]
        ELSE docs[k]]

\* StudentPortal.getSubmission over submissions.filter(s => s.studentId ===
\* currentUser.id)
getSubmission(assignmentId) ==
    LET own == SelectSeq(submissions, LAMBDA s : s.studentId = UserId)
        found == SelectSeq(own, LAMBDA s : s.assignmentId = assignmentId)
    IN IF found = <<>> THEN None ELSE Some(found[1])

\* A faulty queue: submissions of every status are offered for grading
pendingSubmissionsEveryStatus == teacherSubmissions

\* TeacherPortal.pendingSubmissions
pendingSubmissions ==
    SelectSeq(teacherSubmissions, LAMBDA s : s.status = "SUBMITTED")

\* the start button of an assignment that has no submission in the list
StartAssignment(a) ==
    /\ selectedAssignment = None
    /\ ~showReportModal
    /\ getSubmission(a.id) = None
    /\ selectedAssignment' = Some(a)
    /\ UNCHANGED <<answers, submitted, showReportModal, reportSubmission>>
    /\ UNCHANGED <<compileVars, teacherVars, storeVars, folderVars, formVars,
                   rosterVars>>

\* AssignmentViewer's onExit
ExitAssignment ==
    /\ selectedAssignment # None
    /\ selectedAssignment' = None
    /\ UNCHANGED <<answers, submitted, showReportModal, reportSubmission>>
    /\ UNCHANGED <<compileVars, teacherVars, storeVars, folderVars, formVars,
                   rosterVars>>

StoreType ==
    /\ selectedAssignment # None
    /\ TypeAnswer(StoreAnswerId(selectedAssignment[1]), SubmitAlphabet, 1)
    /\ UNCHANGED <<compileVars, teacherVars, storeVars, folderVars, formVars,
                   rosterVars>>

\* handleSubmit, with onSubmit bound to App.handleSubmitAssignment
StoreSubmit ==
    /\ Len(subDb) < MaxSubmissions
    /\ handleSubmit
    /\ subDb' = handleSubmitAssignment(subDb, submitted'[Len(submitted')])
    /\ UNCHANGED <<submissions, teacherSubmissions, selectedSubmission>>
    /\ UNCHANGED <<compileVars, teacherVars, folderVars, formVars, rosterVars>>

\* the X of the report modal
CloseReportModal ==
    /\ showReportModal
    /\ showReportModal' = FALSE
    /\ reportSubmission' = None
    /\ UNCHANGED <<selectedAssignment, answers, submitted>>
    /\ UNCHANGED <<compileVars, teacherVars, storeVars, folderVars, formVars,
                   rosterVars>>

\* onSnapshot(collection(db, 'submissions')) in the student's session
SnapshotStudent ==
    /\ submissions # subDb
    /\ submissions' = subDb
    /\ UNCHANGED <<subDb, teacherSubmissions, selectedSubmission>>
    /\ UNCHANGED <<compileVars, studentVars, teacherVars, folderVars, formVars,
                   rosterVars>>

\* the same in the teacher's session
SnapshotTeacher ==
    /\ teacherSubmissions # subDb
    /\ teacherSubmissions' = subDb
    /\ UNCHANGED <<subDb, submissions, selectedSubmission>>
    /\ UNCHANGED <<compileVars, studentVars, teacherVars, folderVars, formVars,
                   rosterVars>>

\* the Grade button of a row of the pending list
SelectSubmission(k) ==
    /\ selectedSubmission = None
    /\ selectedSubmission' = Some(pendingSubmissions[k])
    /\ UNCHANGED <<subDb, submissions, teacherSubmissions>>
    /\ UNCHANGED <<compileVars, studentVars, teacherVars, folderVars, formVars,
                   rosterVars>>

\* the Submit Grade button: onGradeSubmission(selectedSubmission.id,
\* gradeInput, feedbackInput); setSelectedSubmission(null)
GradeSelectedSubmission(grade, feedback) ==
    /\ selectedSubmission # None
    /\ subDb' = handleGradeSubmission(subDb, selectedSubmission[1].id,
                                      grade, feedback)
    /\ selectedSubmission' = None
    /\ UNCHANGED <<submissions, teacherSubmissions>>
    /\ UNCHANGED <<compileVars, studentVars, teacherVars, folderVars, formVars,
                   rosterVars>>

InitStoreSpec ==
    /\ InitStudent
    /\ InitTeacher
    /\ InitCompileIdle
    /\ InitStore
    /\ InitDashboard

NextStore ==
    \/ \E a \in StoreAssignments : StartAssignment(a)
    \/ ExitAssignment
    \/ StoreType
    \/ StoreSubmit
    \/ CloseReportModal
    \/ SnapshotStudent
    \/ SnapshotTeacher
    \/ \E k \in DOMAIN pendingSubmissions : SelectSubmission(k)
    \/ \E grade \in TeacherGrades, feedback \in TeacherFeedbacks :
          GradeSelectedSubmission(grade, feedback)

SpecStore == InitStoreSpec /\ [][NextStore]_vars

(***************************************************************************)
(* Spec: the teacher's assignment modal and question-group builder, the    *)
(* save into the `assignments` collection, and the snapshot that brings    *)
(* the collection back into the teacher's in-memory list.  The teacher has *)
(* opened class "c1" and its folder "g1" (InitInFolder).                   *)
(***************************************************************************)
\* what the teacher types or picks
Titles == {"T"}
DueDates == {"D"}
WritingPrompts == {"P"}
SkillChoices == {"READING", "WRITING"}
GroupTypeChoices == {"MCQ", "FILL_IN_BLANKS", "NOTES_COMPLETION"}
ContentChoices == {<<>>, <<"[", "a", "]", "[", "b", "]">>}
QuestionTexts == {<<"[", "a", "]">>}

\* const updated = [...tempQuestionGroups]; updated[i].<field> = ...;
\* setTempQuestionGroups(updated): the group object is changed in place, so
\* an in-memory assignment holding the same object changes with it
MutateGroup(i, g) ==
    /\ tempQuestionGroups' = [tempQuestionGroups EXCEPT ![i] = g]
    /\ assignments' =
          IF draftAlias[i] = 0 THEN assignments
          ELSE [k \in 1..Len(assignments) |->
                   IF assignments[k].id = editingAssignmentId
                   THEN [assignments[k] EXCEPT
                            !.questionGroups[draftAlias[i]] = g]
                   ELSE assignments[k]]

\* the class view is rendered while selectedClass is found in `classes`
ClassViewOpen == selectedClassId # "" /\ selectedClassId \in classes

\* the root view's list of loose assignments: those of the class without
\* folder, or whose folder is not among assignmentGroups
LooseAssignments ==
    SelectSeq(assignments,
              LAMBDA a : /\ a.classId = selectedClassId
                         /\ \/ a.groupId = ""
                            \/ ~\E i \in DOMAIN assignmentGroups :
                                   assignmentGroups[i].id = a.groupId)

\* the label under a loose assignment
FolderFlag(a) == IF a.groupId = "" THEN "No Folder" ELSE "Folder Missing"

\* the list of the opened folder
FolderAssignments ==
    SelectSeq(assignments, LAMBDA a : a.groupId = viewingGroupId)

\* the assignments listed (each with its pencil button) in the view at hand
ListedAssignments ==
    IF viewingGroupId = "" THEN LooseAssignments ELSE FolderAssignments

BuilderOpen ==
    /\ showAssignmentModal
    /\ ~showPreviewModal
    /\ newAssignment.type = "READING"

\* "Add Assignment" button of the folder view
OpenCreateAssignment ==
    /\ ~showAssignmentModal
    /\ ClassViewOpen
    /\ viewingGroupId # ""
    /\ Len(db) < MaxAssignments
    /\ editingAssignmentId' = None
    /\ newAssignment' = [BlankDraft EXCEPT !.classId = selectedClassId,
                                           !.writingTaskType = "TASK_1"]
    /\ tempQuestionGroups' = <<>>
    /\ draftAlias' = <<>>
    /\ showAssignmentModal' = TRUE
    /\ alertMessage' = ""
    /\ UNCHANGED <<compileVars, studentVars, storeVars, folderVars, formVars,
                   rosterVars>>
    /\ UNCHANGED <<now, showPreviewModal, tempQuestionText, tempCorrectAnswer,
                   assignments, db, snapshotPending>>

\* the pencil button of an assignment listed in the folder or in the root
\* view
handleEditAssignment(k) ==
    LET assignment == assignments[k] IN
    /\ ~showAssignmentModal
    /\ ClassViewOpen
    /\ \E l \in DOMAIN ListedAssignments : ListedAssignments[l] = assignment
    /\ editingAssignmentId' = assignment.id
    /\ newAssignment' =
          [type |-> assignment.type, title |-> assignment.title,
           dueDate |-> assignment.dueDate, classId |-> assignment.classId,
           groupId |-> assignment.groupId,
           writingTaskType |->
               IF assignment.type = "WRITING" /\ assignment.writingTaskType = ""
               THEN "TASK_1" ELSE assignment.writingTaskType,
           writingPrompt |-> assignment.writingPrompt,
           timeLimit |-> assignment.timeLimit,
           passageContent |-> assignment.passageContent,
           videoUrl |-> assignment.videoUrl,
           writingImage |-> assignment.writingImage]
    /\ tempQuestionGroups' =
          IF assignment.hasQuestionGroups THEN assignment.questionGroups
          ELSE <<>>
    /\ draftAlias' =
          IF assignment.hasQuestionGroups
          THEN [i \in 1..Len(assignment.questionGroups) |-> i] ELSE <<>>
    /\ showAssignmentModal' = TRUE
    /\ alertMessage' = ""
    /\ UNCHANGED <<compileVars, studentVars, storeVars, folderVars, formVars,
                   rosterVars>>
    /\ UNCHANGED <<now, showPreviewModal, tempQuestionText, tempCorrectAnswer,
                   assignments, db, snapshotPending>>

\* the skill buttons, shown only while no assignment is being edited
SelectSkill(type) ==
    /\ showAssignmentModal /\ ~showPreviewModal
    /\ editingAssignmentId = None
    /\ newAssignment' =
          [newAssignment EXCEPT
              !.type = type,
              !.writingTaskType =
                  IF type = "WRITING" /\ @ = "" THEN "TASK_1" ELSE @,
              !.timeLimit =
                  IF type # "WRITING" THEN @
                  ELSE IF newAssignment.writingTaskType \in {"", "TASK_1"}
                  THEN 20 ELSE 40]
    /\ alertMessage' = ""
    /\ UNCHANGED <<compileVars, studentVars, storeVars, folderVars, formVars,
                   rosterVars>>
    /\ UNCHANGED <<now, showAssignmentModal, showPreviewModal,
                   editingAssignmentId, tempQuestionGroups, draftAlias,
                   tempQuestionText, tempCorrectAnswer, assignments, db,
                   snapshotPending>>

SetTitle(v) ==
    /\ showAssignmentModal /\ ~showPreviewModal
    /\ newAssignment' = [newAssignment EXCEPT !.title = v]
    /\ alertMessage' = ""
    /\ UNCHANGED <<compileVars, studentVars, storeVars, folderVars, formVars,
                   rosterVars>>
    /\ UNCHANGED <<now, showAssignmentModal, showPreviewModal,
                   editingAssignmentId, tempQuestionGroups, draftAlias,
                   tempQuestionText, tempCorrectAnswer, assignments, db,
                   snapshotPending>>

SetDueDate(v) ==
    /\ showAssignmentModal /\ ~showPreviewModal
    /\ newAssignment' = [newAssignment EXCEPT !.dueDate = v]
    /\ alertMessage' = ""
    /\ UNCHANGED <<compileVars, studentVars, storeVars, folderVars, formVars,
                   rosterVars>>
    /\ UNCHANGED <<now, showAssignmentModal, showPreviewModal,
                   editingAssignmentId, tempQuestionGroups, draftAlias,
                   tempQuestionText, tempCorrectAnswer, assignments, db,
                   snapshotPending>>

SetWritingPrompt(v) ==
    /\ showAssignmentModal /\ ~showPreviewModal
    /\ newAssignment.type = "WRITING"
    /\ newAssignment' = [newAssignment EXCEPT !.writingPrompt = v]
    /\ alertMessage' = ""
    /\ UNCHANGED <<compileVars, studentVars, storeVars, folderVars, formVars,
                   rosterVars>>
    /\ UNCHANGED <<now, showAssignmentModal, showPreviewModal,
                   editingAssignmentId, tempQuestionGroups, draftAlias,
                   tempQuestionText, tempCorrectAnswer, assignments, db,
                   snapshotPending>>

handleAddQuestionGroup ==
    /\ BuilderOpen
    /\ Len(tempQuestionGroups) < MaxGroups
    /\ now < MaxTime
    /\ tempQuestionGroups' =
          Append(tempQuestionGroups, Group(GroupId(now), "MCQ", Undef, <<>>))
    /\ draftAlias' = Append(draftAlias, 0)
    /\ now' = now + 1
    /\ alertMessage' = ""
    /\ UNCHANGED <<compileVars, studentVars, storeVars, folderVars, formVars,
                   rosterVars>>
    /\ UNCHANGED <<showAssignmentModal, showPreviewModal, editingAssignmentId,
                   newAssignment, tempQuestionText, tempCorrectAnswer,
                   assignments, db, snapshotPending>>

handleGroupTypeChange(index, newType) ==
    LET g == tempQuestionGroups[index] IN
    /\ BuilderOpen
    /\ MutateGroup(index,
          [g EXCEPT
              !.type = newType,
              !.instruction = newType,
              !.headingList =
                  IF newType = "MATCHING_HEADINGS" /\ @ = UndefList
                  THEN <<>> ELSE @,
              !.matchOptions =
                  IF /\ newType \in {"MATCHING_FEATURES",
                                     "MATCHING_SENTENCE_ENDINGS"}
                     /\ @ = UndefList
                  THEN <<>> ELSE @])
    /\ alertMessage' = ""
    /\ UNCHANGED <<compileVars, studentVars, storeVars, folderVars, formVars,
                   rosterVars>>
    /\ UNCHANGED <<now, showAssignmentModal, showPreviewModal,
                   editingAssignmentId, newAssignment, draftAlias,
                   tempQuestionText, tempCorrectAnswer, db, snapshotPending>>

\* the RichTextEditor of a NOTES_COMPLETION group
SetGroupContent(gIdx, val) ==
    /\ BuilderOpen
    /\ tempQuestionGroups[gIdx].type = "NOTES_COMPLETION"
    /\ MutateGroup(gIdx, [tempQuestionGroups[gIdx] EXCEPT !.content = val])
    /\ alertMessage' = ""
    /\ UNCHANGED <<compileVars, studentVars, storeVars, folderVars, formVars,
                   rosterVars>>
    /\ UNCHANGED <<now, showAssignmentModal, showPreviewModal,
                   editingAssignmentId, newAssignment, draftAlias,
                   tempQuestionText, tempCorrectAnswer, db, snapshotPending>>

\* the trash button of a group
RemoveGroup(gIdx) ==
    /\ BuilderOpen
    /\ tempQuestionGroups' =
          SubSeq(tempQuestionGroups, 1, gIdx - 1)
              \o SubSeq(tempQuestionGroups, gIdx + 1, Len(tempQuestionGroups))
    /\ draftAlias' =
          SubSeq(draftAlias, 1, gIdx - 1)
              \o SubSeq(draftAlias, gIdx + 1, Len(draftAlias))
    /\ alertMessage' = ""
    /\ UNCHANGED <<compileVars, studentVars, storeVars, folderVars, formVars,
                   rosterVars>>
    /\ UNCHANGED <<now, showAssignmentModal, showPreviewModal,
                   editingAssignmentId, newAssignment, tempQuestionText,
                   tempCorrectAnswer, assignments, db, snapshotPending>>

\* the "add question" form of a group that is not NOTES_COMPLETION
SetTempQuestionText(v) ==
    /\ BuilderOpen
    /\ \E i \in DOMAIN tempQuestionGroups :
          tempQuestionGroups[i].type # "NOTES_COMPLETION"
    /\ tempQuestionText' = v
    /\ alertMessage' = ""
    /\ UNCHANGED <<compileVars, studentVars, storeVars, folderVars, formVars,
                   rosterVars>>
    /\ UNCHANGED <<now, showAssignmentModal, showPreviewModal,
                   editingAssignmentId, newAssignment, tempQuestionGroups,
                   draftAlias, tempCorrectAnswer, assignments, db,
                   snapshotPending>>

handleAddQuestionToGroup(groupIndex) ==
    LET g == tempQuestionGroups[groupIndex]
        groupType == g.type
        m == match(tempQuestionText)
        finalCorrectAnswer ==
            IF groupType = "FILL_IN_BLANKS" THEN m[1].m1
            ELSE tempCorrectAnswer
        newQ ==
            [id |-> QuestionId(now),
             text |-> tempQuestionText,
             type |-> groupType,
             options |-> IF groupType = "MCQ" THEN tempMcqOptions
                         ELSE UndefList,
             correctAnswer |-> IF Truthy(finalCorrectAnswer)
                               THEN finalCorrectAnswer ELSE Undef,
             maxSelection |-> IF groupType = "MCQ" THEN tempMaxSelection
                              ELSE NoNumber]
    IN
    /\ BuilderOpen
    /\ groupType # "NOTES_COMPLETION"
    /\ Truthy(tempQuestionText)
    /\ groupType = "FILL_IN_BLANKS" => (m # None /\ Truthy(m[1].m1))
    /\ Len(g.questions) < MaxQuestions
    /\ now < MaxTime
    /\ MutateGroup(groupIndex, [g EXCEPT !.questions = Append(@, newQ)])
    /\ tempQuestionText' = <<>>
    /\ tempCorrectAnswer' = Undef
    /\ now' = now + 1
    /\ alertMessage' = ""
    /\ tempMcqOptions' = <<>>
    /\ tempMaxSelection' = 1
    /\ UNCHANGED showJsonImportModal
    /\ UNCHANGED <<compileVars, studentVars, storeVars, folderVars,
                   rosterVars>>
    /\ UNCHANGED <<showAssignmentModal, showPreviewModal, editingAssignmentId,
                   newAssignment, draftAlias, db, snapshotPending>>

\* what the preview modal renders
getPreviewAssignment ==
    [id |-> <<"preview_id", 0, 0, 0>>,
     classId |-> newAssignment.classId,
     groupId |-> newAssignment.groupId,
     title |-> IF newAssignment.title # "" THEN newAssignment.title
               ELSE "Untitled Assignment",
     type |-> newAssignment.type,
     dueDate |-> newAssignment.dueDate,
     hasQuestionGroups |-> TRUE,
     questionGroups |-> previewQuestionGroups(tempQuestionGroups),
     hasQuestions |-> FALSE,
     questions |-> <<>>,
     writingTaskType |-> newAssignment.writingTaskType,
     writingPrompt |-> newAssignment.writingPrompt,
     timeLimit |-> newAssignment.timeLimit,
     passageContent |-> newAssignment.passageContent,
     videoUrl |-> newAssignment.videoUrl,
     writingImage |-> newAssignment.writingImage]

handleOpenPreview ==
    /\ showAssignmentModal
    /\ ~showPreviewModal
    /\ showPreviewModal' = TRUE
    /\ alertMessage' = ""
    /\ UNCHANGED <<compileVars, studentVars, storeVars, folderVars, formVars,
                   rosterVars>>
    /\ UNCHANGED <<now, showAssignmentModal, editingAssignmentId,
                   newAssignment, tempQuestionGroups, draftAlias,
                   tempQuestionText, tempCorrectAnswer, assignments, db,
                   snapshotPending>>

ClosePreview ==
    /\ showPreviewModal
    /\ showPreviewModal' = FALSE
    /\ alertMessage' = ""
    /\ UNCHANGED <<compileVars, studentVars, storeVars, folderVars, formVars,
                   rosterVars>>
    /\ UNCHANGED <<now, showAssignmentModal, editingAssignmentId,
                   newAssignment, tempQuestionGroups, draftAlias,
                   tempQuestionText, tempCorrectAnswer, assignments, db,
                   snapshotPending>>

\* setDoc(doc(db, 'assignments', id), data): the document of that id is
\* replaced, or created; the collection is read back in document-id order.
\* (sanitizeForFirestore drops the undefined fields, which read back as
\* undefined: an undefined field and an absent one are the same value here.)
RECURSIVE InsertById(_, _)
InsertById(docs, a) ==
    IF docs = <<>> THEN <<a>>
    ELSE IF a.id[2] < Head(docs).id[2] THEN <<a>> \o docs
    ELSE <<Head(docs)>> \o InsertById(Tail(docs), a)

setDoc(docs, a) ==
    IF \E k \in DOMAIN docs : docs[k].id = a.id
    THEN [k \in DOMAIN docs |-> IF docs[k].id = a.id THEN a ELSE docs[k]]
    ELSE InsertById(docs, a)

\* App.handleCreateAssignment: an id longer than 10 characters (Date.now()
\* has 13 digits) is written with setDoc
handleCreateAssignment(docs, a) == setDoc(docs, a)

\* App.handleUpdateAssignment
handleUpdateAssignment(docs, a) == setDoc(docs, a)

\* the assignment handleSaveAssignment hands to onUpdateAssignment or
\* onAddAssignment
assignmentData ==
    [id |-> IF editingAssignmentId # None THEN editingAssignmentId
            ELSE AssignmentId(now),
     classId |-> IF selectedClassId # "" THEN selectedClassId
                 ELSE newAssignment.classId,
     groupId |-> viewingGroupId,
     title |-> newAssignment.title,
     type |-> newAssignment.type,
     dueDate |-> newAssignment.dueDate,
     hasQuestionGroups |-> TRUE,
     questionGroups |-> processedQuestionGroups(tempQuestionGroups, now),
     hasQuestions |-> FALSE,
     questions |-> <<>>,
     writingTaskType |->
         IF newAssignment.type = "WRITING" /\ newAssignment.writingTaskType = ""
         THEN "TASK_1" ELSE newAssignment.writingTaskType,
     writingPrompt |-> newAssignment.writingPrompt,
     timeLimit |-> newAssignment.timeLimit,
     passageContent |-> newAssignment.passageContent,
     videoUrl |-> newAssignment.videoUrl,
     writingImage |-> newAssignment.writingImage]

\* Date.now() is read for a new assignment's id and for generated questions
SaveReadsClock ==
    \/ editingAssignmentId = None
    \/ \E i \in DOMAIN tempQuestionGroups :
          /\ tempQuestionGroups[i].type = "NOTES_COMPLETION"
          /\ Truthy(tempQuestionGroups[i].content)

\* A faulty validation: the essay prompt is not asked for
ValidationMessageNoPromptCheck ==
    IF \/ newAssignment.title = ""
       \/ newAssignment.dueDate = ""
       \/ assignmentData.classId = ""
    THEN "Please fill in Title, Due Date, and ensure Class is selected"
    ELSE ""

\* the two validations at the head of handleSaveAssignment: the message of
\* the alert raised, "" when the draft passes
ValidationMessage ==
    IF \/ newAssignment.title = ""
       \/ newAssignment.dueDate = ""
       \/ assignmentData.classId = ""
    THEN "Please fill in Title, Due Date, and ensure Class is selected"
    ELSE IF newAssignment.type = "WRITING" /\ newAssignment.writingPrompt = ""
    THEN "Please enter an essay prompt"
    ELSE ""

\* handleSaveAssignment, the write of onUpdateAssignment / onAddAssignment
\* taking effect (written) or being rejected by the store: the handler does
\* not await the write and runs to its end either way
handleSaveAssignmentWith(written) ==
    /\ showAssignmentModal /\ ~showPreviewModal
    /\ alertMessage' = ValidationMessage
    /\ IF ValidationMessage # ""
       THEN UNCHANGED <<now, showAssignmentModal, editingAssignmentId,
                        newAssignment, tempQuestionGroups, draftAlias, db,
                        snapshotPending>>
       ELSE /\ SaveReadsClock => now < MaxTime
            /\ db' = IF ~written THEN db
                     ELSE IF editingAssignmentId # None
                     THEN handleUpdateAssignment(db, assignmentData)
                     ELSE handleCreateAssignment(db, assignmentData)
            /\ snapshotPending' = (written \/ snapshotPending)
            /\ now' = IF SaveReadsClock THEN now + 1 ELSE now
            /\ showAssignmentModal' = FALSE
            /\ editingAssignmentId' = None
            /\ newAssignment' = BlankDraft
            /\ tempQuestionGroups' = <<>>
            /\ draftAlias' = <<>>
    /\ UNCHANGED <<compileVars, studentVars, storeVars, folderVars, formVars,
                   rosterVars>>
    /\ UNCHANGED <<showPreviewModal, tempQuestionText, tempCorrectAnswer,
                   assignments>>

handleSaveAssignment == handleSaveAssignmentWith(TRUE)

\* the save of a valid draft whose write the store rejects
handleSaveAssignmentWriteFails ==
    /\ ValidationMessage = ""
    /\ handleSaveAssignmentWith(FALSE)

\* the X of the header and the Cancel button
CloseAssignmentModal ==
    /\ showAssignmentModal /\ ~showPreviewModal
    /\ showAssignmentModal' = FALSE
    /\ alertMessage' = ""
    /\ UNCHANGED <<compileVars, studentVars, storeVars, folderVars, formVars,
                   rosterVars>>
    /\ UNCHANGED <<now, showPreviewModal, editingAssignmentId, newAssignment,
                   tempQuestionGroups, draftAlias, tempQuestionText,
                   tempCorrectAnswer, assignments, db, snapshotPending>>

\* the Discard button, confirmed
DiscardAssignment ==
    /\ showAssignmentModal /\ ~showPreviewModal
    /\ showAssignmentModal' = FALSE
    /\ editingAssignmentId' = None
    /\ alertMessage' = ""
    /\ UNCHANGED <<compileVars, studentVars, storeVars, folderVars, formVars,
                   rosterVars>>
    /\ UNCHANGED <<now, showPreviewModal, newAssignment, tempQuestionGroups,
                   draftAlias, tempQuestionText, tempCorrectAnswer,
                   assignments, db, snapshotPending>>

\* onSnapshot(collection(db, 'assignments')): the in-memory list is rebuilt
\* from the collection, so the draft shares no object with it any more
Snapshot ==
    /\ snapshotPending
    /\ assignments' = db
    /\ draftAlias' = [i \in DOMAIN draftAlias |-> 0]
    /\ snapshotPending' = FALSE
    /\ alertMessage' = ""
    /\ UNCHANGED <<compileVars, studentVars, storeVars, folderVars, formVars,
                   rosterVars>>
    /\ UNCHANGED <<now, showAssignmentModal, showPreviewModal,
                   editingAssignmentId, newAssignment, tempQuestionGroups,
                   tempQuestionText, tempCorrectAnswer, db>>

Init ==
    /\ InitTeacher
    /\ InitStudent
    /\ InitCompileIdle
    /\ InitStore
    /\ InitInFolder

Next ==
    \/ OpenCreateAssignment
    \/ \E k \in DOMAIN assignments : handleEditAssignment(k)
    \/ \E type \in SkillChoices : SelectSkill(type)
    \/ \E v \in Titles : SetTitle(v)
    \/ \E v \in DueDates : SetDueDate(v)
    \/ \E v \in WritingPrompts : SetWritingPrompt(v)
    \/ handleAddQuestionGroup
    \/ \E i \in DOMAIN tempQuestionGroups, t \in GroupTypeChoices :
          handleGroupTypeChange(i, t)
    \/ \E i \in DOMAIN tempQuestionGroups, v \in ContentChoices :
          SetGroupContent(i, v)
    \/ \E i \in DOMAIN tempQuestionGroups : RemoveGroup(i)
    \/ \E v \in QuestionTexts : SetTempQuestionText(v)
    \/ \E i \in DOMAIN tempQuestionGroups : handleAddQuestionToGroup(i)
    \/ handleOpenPreview
    \/ ClosePreview
    \/ handleSaveAssignment
    \/ CloseAssignmentModal
    \/ DiscardAssignment
    \/ Snapshot

Spec == Init /\ [][Next]_vars

(***************************************************************************)
(* SpecBuilder: the question-group builder of a new READING draft alone,   *)
(* with the list builders of the matching types.                           *)
(***************************************************************************)
MaxListLen == 2   \* entries of a heading list or of a match-option list

BuilderTypeChoices ==
    {"MCQ", "MATCHING_HEADINGS", "MATCHING_FEATURES",
     "MATCHING_SENTENCE_ENDINGS"}

\* what the teacher types into tempHeadingInput / tempMatchOptionInput before
\* pressing Add (the handlers clear the input afterwards)
ListInputs == {<<"h">>, <<"k">>, <<" ">>}

RemoveAt(list, idx) ==
    SubSeq(list, 1, idx - 1) \o SubSeq(list, idx + 1, Len(list))

BuilderFrame ==
    /\ alertMessage' = ""
    /\ UNCHANGED <<compileVars, studentVars, storeVars, folderVars, formVars,
                   rosterVars>>
    /\ UNCHANGED <<now, showAssignmentModal, showPreviewModal,
                   editingAssignmentId, newAssignment, draftAlias,
                   tempQuestionText, tempCorrectAnswer, db, snapshotPending>>

addHeadingToGroup(groupIndex, tempHeadingInput) ==
    LET g == tempQuestionGroups[groupIndex]
        list == IF g.headingList = UndefList THEN <<>> ELSE g.headingList
    IN
    /\ BuilderOpen
    /\ g.type = "MATCHING_HEADINGS"
    /\ trim(tempHeadingInput) # <<>>
    /\ Len(list) < MaxListLen
    /\ MutateGroup(groupIndex,
                   [g EXCEPT !.headingList = Append(list, tempHeadingInput)])
    /\ BuilderFrame

removeHeadingFromGroup(groupIndex, headingIdx) ==
    LET g == tempQuestionGroups[groupIndex] IN
    /\ BuilderOpen
    /\ g.type = "MATCHING_HEADINGS"
    /\ g.headingList # UndefList
    /\ headingIdx \in DOMAIN g.headingList
    /\ MutateGroup(groupIndex,
                   [g EXCEPT !.headingList = RemoveAt(@, headingIdx)])
    /\ BuilderFrame

addMatchOptionToGroup(groupIndex, tempMatchOptionInput) ==
    LET g == tempQuestionGroups[groupIndex]
        list == IF g.matchOptions = UndefList THEN <<>> ELSE g.matchOptions
    IN
    /\ BuilderOpen
    /\ g.type \in {"MATCHING_FEATURES", "MATCHING_SENTENCE_ENDINGS"}
    /\ trim(tempMatchOptionInput) # <<>>
    /\ Len(list) < MaxListLen
    /\ MutateGroup(groupIndex,
                   [g EXCEPT !.matchOptions = Append(list, tempMatchOptionInput)])
    /\ BuilderFrame

removeMatchOptionFromGroup(groupIndex, optIdx) ==
    LET g == tempQuestionGroups[groupIndex] IN
    /\ BuilderOpen
    /\ g.type \in {"MATCHING_FEATURES", "MATCHING_SENTENCE_ENDINGS"}
    /\ g.matchOptions # UndefList
    /\ optIdx \in DOMAIN g.matchOptions
    /\ MutateGroup(groupIndex,
                   [g EXCEPT !.matchOptions = RemoveAt(@, optIdx)])
    /\ BuilderFrame

NextBuilder ==
    \/ OpenCreateAssignment
    \/ handleAddQuestionGroup
    \/ \E i \in DOMAIN tempQuestionGroups, t \in BuilderTypeChoices :
          handleGroupTypeChange(i, t)
    \/ \E i \in DOMAIN tempQuestionGroups, v \in ListInputs :
          addHeadingToGroup(i, v)
    \/ \E i \in DOMAIN tempQuestionGroups, h \in 1..MaxListLen :
          removeHeadingFromGroup(i, h)
    \/ \E i \in DOMAIN tempQuestionGroups, v \in ListInputs :
          addMatchOptionToGroup(i, v)
    \/ \E i \in DOMAIN tempQuestionGroups, o \in 1..MaxListLen :
          removeMatchOptionFromGroup(i, o)
    \/ \E i \in DOMAIN tempQuestionGroups : RemoveGroup(i)

SpecBuilder == Init /\ [][NextBuilder]_vars

(***************************************************************************)
(* SpecAnalytics: the roster of class "c1" (students added to it and       *)
(* removed from it), the submissions of its students, the teacher's        *)
(* grading, and the Gradebook's analytics over the teacher's in-memory     *)
(* lists.  The students' own sessions are not part of this specification:  *)
(* a submission enters with the document handleSubmit builds for it.       *)
(***************************************************************************)
MaxStudents == 2   \* student documents in the `users` collection

\* the assignments of class "c1": auto-graded with two questions, not
\* auto-graded, and auto-graded without any question
AnalyticsAssignments ==
    <<Assignment(AssignmentId(1), "READING", TRUE,
                 <<Group(GroupId(1), "MCQ", Undef,
                         <<Question(QuestionId(1), "MCQ", <<"A">>, 1,
                                    <<<<"x">>, <<"y">>>>),
                           Question(QuestionId(2), "MCQ", <<"A">>, 1,
                                    <<<<"x">>, <<"y">>>>)>>)>>,
                 FALSE, <<>>),
      Assignment(AssignmentId(2), "WRITING", FALSE, <<>>, FALSE, <<>>),
      Assignment(AssignmentId(3), "READING", TRUE, <<>>, FALSE, <<>>)>>

\* the answers a student hands in: a letter for every question
AnalyticsAnswers(a) ==
    [{AllQuestions(a)[i].id : i \in DOMAIN AllQuestions(a)} ->
        {<<"A">>, <<"B">>}]

\* what the teacher types into the grade input
AnalyticsGrades == {<<"3", "/", "2">>}

\* the ids addDoc gives the student documents
StudentDocId(k) == <<"student1", "student2", "student3">>[k]

\* s.enrolledClassIds?.includes(classId)
Enrolled(s, classId) ==
    \E i \in DOMAIN s.enrolledClassIds : s.enrolledClassIds[i] = classId

\* handleSaveStudent, with onAddStudent bound to App.handleAddStudent: the
\* document is added without the id field, under an id of the store's
handleSaveStudent ==
    LET enrolledIds == IF selectedClassId # "" THEN <<selectedClassId>>
                       ELSE <<>>
    IN
    /\ Len(studentsDb) < MaxStudents
    /\ studentsDb' = Append(studentsDb,
                            [id |-> StudentDocId(Len(studentsDb) + 1),
                             enrolledClassIds |-> enrolledIds])
    /\ UNCHANGED students
    /\ UNCHANGED <<compileVars, studentVars, teacherVars, storeVars,
                   folderVars, formVars>>

\* onSnapshot(query(collection(db, 'users'), where('role', '==', 'STUDENT')))
SnapshotStudents ==
    /\ students # studentsDb
    /\ students' = studentsDb
    /\ UNCHANGED studentsDb
    /\ UNCHANGED <<compileVars, studentVars, teacherVars, storeVars,
                   folderVars, formVars>>

\* App.handleRemoveStudentFromClass
handleRemoveStudentFromClass(docs, studentId, classId) ==
    LET found == SelectSeq(students, LAMBDA s : s.id = studentId) IN
    IF found = <<>> THEN docs
    ELSE LET newEnrolledClassIds ==
                 SelectSeq(found[1].enrolledClassIds, LAMBDA id : id # classId)
         IN [k \in DOMAIN docs |->
                IF docs[k].id = studentId
                THEN [docs[k] EXCEPT !.enrolledClassIds = newEnrolledClassIds]
                ELSE docs[k]]

\* the trash button of a row of the class's student table, confirmed:
\* handleConfirmRemoveStudent
RemoveStudent(k) ==
    /\ selectedClassId # ""
    /\ Enrolled(students[k], selectedClassId)
    /\ studentsDb' = handleRemoveStudentFromClass(studentsDb, students[k].id,
                                                  selectedClassId)
    /\ UNCHANGED students
    /\ UNCHANGED <<compileVars, studentVars, teacherVars, storeVars,
                   folderVars, formVars>>

\* A student of the class hands in assignment a, which the student has not
\* handed in before: handleSubmit builds the submission and
\* App.handleSubmitAssignment adds it to the collection.
StudentSubmits(studentId, a, ans) ==
    /\ Len(subDb) < MaxSubmissions
    /\ \E k \in DOMAIN studentsDb :
          studentsDb[k].id = studentId /\ Enrolled(studentsDb[k], a.classId)
    /\ \A k \in DOMAIN subDb :
          ~(subDb[k].studentId = studentId /\ subDb[k].assignmentId = a.id)
    /\ AutoGraded(a) => ~GradingThrows(ans, AllQuestions(a))
    /\ subDb' = handleSubmitAssignment(
                    subDb, BuildSubmission(a, ans, <<"s", Len(subDb) + 1>>,
                                           studentId))
    /\ UNCHANGED <<submissions, teacherSubmissions, selectedSubmission>>
    /\ UNCHANGED <<compileVars, studentVars, teacherVars, folderVars,
                   formVars, rosterVars>>

\* Math.round of the non-negative fraction num / den
Round(num, den) == (2 * num + den) \div (2 * den)

\* s.split('/')
RECURSIVE SplitSlashFrom(_, _, _)
SplitSlashFrom(s, i, cur) ==
    IF i > Len(s) THEN <<cur>>
    ELSE IF s[i] = "/" THEN <<cur>> \o SplitSlashFrom(s, i + 1, <<>>)
    ELSE SplitSlashFrom(s, i + 1, Append(cur, s[i]))

\* !isNaN(Number(str)) for a string of digits and other characters
IsNumber(str) ==
    \A i \in DOMAIN str : \E d \in 0..9 : str[i] = Digit(d)

\* Number(str) of a string of digits; Number("") is 0
RECURSIVE Number(_)
Number(str) ==
    IF str = <<>> THEN 0
    ELSE 10 * Number(SubSeq(str, 1, Len(str) - 1))
         + (CHOOSE d \in 0..9 : str[Len(str)] = Digit(d))

\* The entry of `scores` for a graded submission, as the fraction
\* <<numerator, denominator>> of its value: (score/max) * 100, or 0
Score(s) ==
    IF ~Truthy(s.grade) THEN <<0, 1>>
    ELSE LET parts == SplitSlashFrom(s.grade, 1, <<>>)
             scoreOk == IsNumber(parts[1])
             maxOk == Len(parts) >= 2 /\ IsNumber(parts[2])
         IN IF scoreOk /\ maxOk /\ Number(parts[2]) > 0
            THEN <<Number(parts[1]) * 100, Number(parts[2])>>
            ELSE <<0, 1>>

\* scores.reduce((a, b) => a + b, 0), as a fraction
RECURSIVE SumScores(_)
SumScores(subs) ==
    IF subs = <<>> THEN <<0, 1>>
    ELSE LET rest == SumScores(Tail(subs))
             sc == Score(Head(subs))
         IN <<sc[1] * rest[2] + rest[1] * sc[2], sc[2] * rest[2]>>

\* the students prop of the Gradebook
GradebookStudents ==
    SelectSeq(students, LAMBDA s : Enrolled(s, selectedClassId))

\* the assignments prop of the Gradebook
GradebookAssignments ==
    SelectSeq(assignments, LAMBDA a : a.classId = selectedClassId)

\* A faulty filter: every graded submission counts, with or without report
gradedSubmissionsAnyReport(selectedAssignmentId) ==
    SelectSeq(teacherSubmissions,
              LAMBDA s : s.assignmentId = selectedAssignmentId
                         /\ s.status = "GRADED")

\* assignmentSubmissions.filter(s => s.status === 'GRADED' && s.report)
gradedSubmissions(selectedAssignmentId) ==
    SelectSeq(teacherSubmissions,
              LAMBDA s : s.assignmentId = selectedAssignmentId
                         /\ s.status = "GRADED" /\ s.report.defined)

\* submissions.filter(s => s.assignmentId === selectedAssignmentId)
assignmentSubmissions(selectedAssignmentId) ==
    SelectSeq(teacherSubmissions,
              LAMBDA s : s.assignmentId = selectedAssignmentId)

\* sub.report && sub.report[q.id]
HasEntry(sub, q) == sub.report.defined /\ q.id \in DOMAIN sub.report.of

\* the statistics of question q
QuestionStat(graded, q) ==
    LET attempts == SelectSeq(graded, LAMBDA sub : HasEntry(sub, q))
        correct == SelectSeq(attempts,
                             LAMBDA sub : sub.report.of[q.id].isCorrect)
    IN [question |-> q,
        accuracy |-> IF Len(attempts) > 0
                     THEN Round(Len(correct) * 100, Len(attempts)) ELSE 0,
        correctCount |-> Len(correct),
        attemptCount |-> Len(attempts)]

\* .sort((a, b) => a.accuracy - b.accuracy): a stable sort
RECURSIVE InsertByAccuracy(_, _)
InsertByAccuracy(sorted, st) ==
    IF sorted = <<>> THEN <<st>>
    ELSE IF sorted[Len(sorted)].accuracy <= st.accuracy
         THEN Append(sorted, st)
    ELSE Append(InsertByAccuracy(SubSeq(sorted, 1, Len(sorted) - 1), st),
                sorted[Len(sorted)])

RECURSIVE SortByAccuracy(_)
SortByAccuracy(stats) ==
    IF stats = <<>> THEN <<>>
    ELSE InsertByAccuracy(SortByAccuracy(SubSeq(stats, 1, Len(stats) - 1)),
                          stats[Len(stats)])

\* A faulty list: the statistics are left in the order of the questions
questionStatsUnsorted(assignment) ==
    LET allQuestions == AllQuestions(assignment)
        graded == gradedSubmissions(assignment.id)
    IN [i \in DOMAIN allQuestions |-> QuestionStat(graded, allQuestions[i])]

\* questionStats
questionStats(assignment) ==
    LET allQuestions == AllQuestions(assignment)
        graded == gradedSubmissions(assignment.id)
    IN SortByAccuracy([i \in DOMAIN allQuestions |->
                          QuestionStat(graded, allQuestions[i])])

\* averageScore
averageScore(selectedAssignmentId) ==
    LET graded == gradedSubmissions(selectedAssignmentId)
        sum == SumScores(graded)
    IN IF Len(graded) > 0 THEN Round(sum[1], sum[2] * Len(graded)) ELSE 0

\* completionRate
completionRate(selectedAssignmentId) ==
    IF Len(GradebookStudents) > 0
    THEN Round(Len(assignmentSubmissions(selectedAssignmentId)) * 100,
               Len(GradebookStudents))
    ELSE 0

\* the teacher has opened class "c1", whose assignments are stored
InitAnalytics ==
    /\ InitStudent
    /\ InitCompileIdle
    /\ InitStore
    /\ InitInFolder
    /\ now = 0
    /\ showAssignmentModal = FALSE
    /\ showPreviewModal = FALSE
    /\ editingAssignmentId = None
    /\ newAssignment = [BlankDraft EXCEPT !.writingTaskType = "TASK_1"]
    /\ tempQuestionGroups = <<>>
    /\ draftAlias = <<>>
    /\ tempQuestionText = <<>>
    /\ tempCorrectAnswer = Undef
    /\ assignments = AnalyticsAssignments
    /\ db = AnalyticsAssignments
    /\ snapshotPending = FALSE
    /\ alertMessage = ""
    /\ tempMcqOptions = <<>>
    /\ tempMaxSelection = 1
    /\ showJsonImportModal = FALSE
    /\ studentsDb = <<>>
    /\ students = <<>>

NextAnalytics ==
    \/ handleSaveStudent
    \/ SnapshotStudents
    \/ \E k \in DOMAIN students : RemoveStudent(k)
    \/ \E k \in DOMAIN studentsDb, i \in DOMAIN AnalyticsAssignments :
          \E ans \in AnalyticsAnswers(AnalyticsAssignments[i]) :
              StudentSubmits(studentsDb[k].id, AnalyticsAssignments[i], ans)
    \/ SnapshotTeacher
    \/ \E k \in DOMAIN pendingSubmissions : SelectSubmission(k)
    \/ \E grade \in AnalyticsGrades, feedback \in TeacherFeedbacks :
          GradeSelectedSubmission(grade, feedback)

SpecAnalytics == InitAnalytics /\ [][NextAnalytics]_vars

(***************************************************************************)
(* SpecImport: the "Import JSON" dialog of the builder.  The text pasted   *)
(* into it is an input of handleJsonImport, given by what JSON.parse makes *)
(* of it.                                                                  *)
(***************************************************************************)
MaxDraftGroups == 3   \* question groups in a draft after an import

\* a question group of the pasted JSON, with or without a `questions` list
ImportedGroup(hasQuestions) ==
    [group |-> Group(GroupId(0), "MCQ", Undef,
                     IF hasQuestions
                     THEN <<Question(QuestionId(0), "MCQ", <<"A">>, 1,
                                     <<<<"x">>, <<"y">>>>)>>
                     ELSE <<>>),
     hasQuestions |-> hasQuestions]

\* the pasted texts: blank, not JSON, or an object with or without a
\* passageContent and with or without an array of questionGroups
ImportInputs ==
    {[blank |-> b, parses |-> p, passageContent |-> c, isArray |-> a,
      questionGroups |-> gs] :
        b \in BOOLEAN, p \in BOOLEAN, c \in {"", "P1", "P2"}, a \in BOOLEAN,
        gs \in {<<>>, <<ImportedGroup(TRUE)>>, <<ImportedGroup(FALSE)>>,
                <<ImportedGroup(TRUE), ImportedGroup(FALSE)>>}}

PasteAlert == "Please paste the JSON data into the text area."
FailedAlert == "Failed to import JSON"
ImportedAlert == "JSON imported successfully! Please review the populated data."

\* `qg_${Date.now()}_${random}` and `q_${Date.now()}_${random}`: the random
\* suffixes differ from group to group and from question to question
ImportedGroupId(t, k) == <<"qg_r", t, k, 0>>
ImportedQuestionId(t, k, i) == <<"q_r", t, k, i>>

\* data.questionGroups.map(g => ({...g, id, questions: g.questions.map(q =>
\* ({...q, id}))}))
processedGroups(groups, t) ==
    [k \in DOMAIN groups |->
        [groups[k].group EXCEPT
            !.id = ImportedGroupId(t, k),
            !.questions = [i \in DOMAIN @ |->
                              [@[i] EXCEPT !.id = ImportedQuestionId(t, k, i)]]]]

ImportFrame ==
    /\ UNCHANGED <<compileVars, studentVars, storeVars, folderVars, rosterVars>>
    /\ UNCHANGED <<showAssignmentModal, showPreviewModal,
                   editingAssignmentId, tempQuestionText, tempCorrectAnswer,
                   assignments, db, snapshotPending, tempMcqOptions,
                   tempMaxSelection>>

\* the Import JSON button of the builder
OpenJsonImport ==
    /\ BuilderOpen
    /\ ~showJsonImportModal
    /\ showJsonImportModal' = TRUE
    /\ alertMessage' = ""
    /\ UNCHANGED <<now, newAssignment, tempQuestionGroups, draftAlias>>
    /\ ImportFrame

\* the X and the Cancel button of the dialog
CloseJsonImport ==
    /\ showJsonImportModal
    /\ showJsonImportModal' = FALSE
    /\ alertMessage' = ""
    /\ UNCHANGED <<now, newAssignment, tempQuestionGroups, draftAlias>>
    /\ ImportFrame

\* handleJsonImport.  A state set before an exception stays set: the
\* exception is caught in the handler, and React applies the queued update.
handleJsonImport(input) ==
    /\ showJsonImportModal
    /\ Len(tempQuestionGroups) + Len(input.questionGroups) <= MaxDraftGroups
    /\ now < MaxTime
    /\ IF input.blank
       THEN /\ alertMessage' = PasteAlert
            /\ UNCHANGED <<now, newAssignment, tempQuestionGroups, draftAlias,
                           showJsonImportModal>>
       ELSE IF ~input.parses \/ input.passageContent = "" \/ ~input.isArray
       THEN /\ alertMessage' = FailedAlert
            /\ UNCHANGED <<now, newAssignment, tempQuestionGroups, draftAlias,
                           showJsonImportModal>>
       ELSE /\ newAssignment' =
                  [newAssignment EXCEPT !.passageContent = input.passageContent]
            /\ IF \E k \in DOMAIN input.questionGroups :
                      ~input.questionGroups[k].hasQuestions
               THEN \* g.questions.map throws a TypeError
                    /\ alertMessage' = FailedAlert
                    /\ UNCHANGED <<now, tempQuestionGroups, draftAlias,
                                   showJsonImportModal>>
               ELSE /\ tempQuestionGroups' =
                          tempQuestionGroups
                             \o processedGroups(input.questionGroups, now)
                    /\ draftAlias' =
                          draftAlias
                             \o [k \in DOMAIN input.questionGroups |-> 0]
                    /\ now' = now + 1
                    /\ alertMessage' = ImportedAlert
                    /\ showJsonImportModal' = FALSE
    /\ ImportFrame

NextImport ==
    \/ OpenCreateAssignment
    \/ \E v \in Titles : SetTitle(v)
    \/ handleAddQuestionGroup
    \/ OpenJsonImport
    \/ CloseJsonImport
    \/ \E input \in ImportInputs : handleJsonImport(input)

SpecImport == Init /\ [][NextImport]_vars

(***************************************************************************)
(* SpecMcq: the "add question" form of an MCQ group of a new READING       *)
(* draft: its option list, its number of answers to select and its         *)
(* correct answer.                                                         *)
(***************************************************************************)
MaxOptions == 3   \* options in the form's list

\* what the teacher types into tempOptionInput before pressing Add
OptionInputs == {<<"x">>, <<"y">>}

\* the values the "answers to select" input is set to
SelectionCounts == {1, 2}

\* toLetter(num) = String.fromCharCode(65 + num)
toLetter(num) == <<"A", "B", "C", "D">>[num + 1]

\* String.prototype.includes for a one-character argument, on a string that
\* may be null (tempCorrectAnswer?.includes)
includes(str, letter) ==
    str # Undef /\ \E i \in DOMAIN str : str[i] = letter

\* the form of an MCQ group is open
McqFormOpen ==
    /\ BuilderOpen
    /\ \E i \in DOMAIN tempQuestionGroups : tempQuestionGroups[i].type = "MCQ"

McqFrame ==
    /\ alertMessage' = ""
    /\ UNCHANGED <<compileVars, studentVars, storeVars, folderVars,
                   rosterVars>>
    /\ UNCHANGED <<now, showAssignmentModal, showPreviewModal,
                   editingAssignmentId, newAssignment, tempQuestionGroups,
                   draftAlias, tempQuestionText, assignments, db,
                   snapshotPending, showJsonImportModal>>

\* the Add button next to the option input
AddMcqOption(tempOptionInput) ==
    /\ McqFormOpen
    /\ tempOptionInput # <<>>
    /\ Len(tempMcqOptions) < MaxOptions
    /\ tempMcqOptions' = Append(tempMcqOptions, tempOptionInput)
    /\ UNCHANGED <<tempMaxSelection, tempCorrectAnswer>>
    /\ McqFrame

\* the X of the option at idx (counted from 0)
RemoveMcqOption(idx) ==
    /\ McqFormOpen
    /\ idx + 1 \in DOMAIN tempMcqOptions
    /\ tempMcqOptions' = RemoveAt(tempMcqOptions, idx + 1)
    /\ tempCorrectAnswer' =
          IF includes(tempCorrectAnswer, toLetter(idx)) THEN Undef
          ELSE tempCorrectAnswer
    /\ UNCHANGED tempMaxSelection
    /\ McqFrame

\* the "answers to select" input
SetTempMaxSelection(val) ==
    /\ McqFormOpen
    /\ tempMaxSelection' = val
    /\ tempCorrectAnswer' = Undef
    /\ UNCHANGED tempMcqOptions
    /\ McqFrame

\* the radio button of the option at idx, shown while one answer is to be
\* selected
ChooseMcqCorrectAnswer(idx) ==
    /\ McqFormOpen
    /\ tempMaxSelection = 1
    /\ idx + 1 \in DOMAIN tempMcqOptions
    /\ tempCorrectAnswer' = <<toLetter(idx)>>
    /\ UNCHANGED <<tempMcqOptions, tempMaxSelection>>
    /\ McqFrame

\* the check box of the option at idx, shown while several answers are to
\* be selected: toggleMcqCorrectAnswer(toLetter(idx))
toggleMcqCorrectAnswer(idx) ==
    LET letter == <<toLetter(idx)>>
        current == IF Truthy(tempCorrectAnswer) THEN split(tempCorrectAnswer)
                   ELSE <<>>
        without == SelectSeq(current, LAMBDA l : l # letter)
    IN
    /\ McqFormOpen
    /\ tempMaxSelection > 1
    /\ idx + 1 \in DOMAIN tempMcqOptions
    /\ tempCorrectAnswer' =
          IF \E i \in DOMAIN current : current[i] = letter
          THEN IF without # <<>> THEN join(sort(without)) ELSE Undef
          ELSE join(sort(Append(current, letter)))
    /\ UNCHANGED <<tempMcqOptions, tempMaxSelection>>
    /\ McqFrame

NextMcq ==
    \/ OpenCreateAssignment
    \/ handleAddQuestionGroup
    \/ \E v \in QuestionTexts : SetTempQuestionText(v)
    \/ \E v \in OptionInputs : AddMcqOption(v)
    \/ \E idx \in 0..(MaxOptions - 1) : RemoveMcqOption(idx)
    \/ \E val \in SelectionCounts : SetTempMaxSelection(val)
    \/ \E idx \in 0..(MaxOptions - 1) : ChooseMcqCorrectAnswer(idx)
    \/ \E idx \in 0..(MaxOptions - 1) : toggleMcqCorrectAnswer(idx)
    \/ \E i \in DOMAIN tempQuestionGroups : handleAddQuestionToGroup(i)

SpecMcq == Init /\ [][NextMcq]_vars

(***************************************************************************)
(* SpecRetry: creating and editing an assignment with a store that may     *)
(* reject the write of a save.                                             *)
(***************************************************************************)
NextRetry ==
    \/ OpenCreateAssignment
    \/ \E k \in DOMAIN assignments : handleEditAssignment(k)
    \/ \E v \in Titles : SetTitle(v)
    \/ \E v \in DueDates : SetDueDate(v)
    \/ handleAddQuestionGroup
    \/ \E i \in DOMAIN tempQuestionGroups, t \in GroupTypeChoices :
          handleGroupTypeChange(i, t)
    \/ handleSaveAssignment
    \/ handleSaveAssignmentWriteFails
    \/ CloseAssignmentModal
    \/ Snapshot

SpecRetry == Init /\ [][NextRetry]_vars

(***************************************************************************)
(* SpecFolders: the teacher's navigation between dashboard, class, root    *)
(* view and folder, deleting and reordering folders, creating and editing  *)
(* assignments (title and due date only), the deletion of the class from   *)
(* another session, and the snapshots of the three collections.            *)
(***************************************************************************)
DraftUnchanged ==
    UNCHANGED <<now, showAssignmentModal, showPreviewModal,
                editingAssignmentId, newAssignment, tempQuestionGroups,
                draftAlias, tempQuestionText, tempCorrectAnswer>>

\* a class card of the dashboard, which is rendered while no class is found
\* for selectedClassId
SelectClass(c) ==
    /\ ~showAssignmentModal
    /\ ~ClassViewOpen
    /\ selectedClassId' = c
    /\ localGroups' = SyncedLocalGroups(assignmentGroups, c, localGroups)
    /\ alertMessage' = ""
    /\ DraftUnchanged
    /\ UNCHANGED <<assignments, db, snapshotPending>>
    /\ UNCHANGED <<viewingGroupId, classesDb, classes, groupsDb,
                   assignmentGroups, draggedGroupIndex, consoleError>>
    /\ UNCHANGED <<compileVars, studentVars, storeVars, formVars, rosterVars>>

\* the X of the class view
CloseClass ==
    /\ ~showAssignmentModal
    /\ ClassViewOpen
    /\ draggedGroupIndex = 0
    /\ selectedClassId' = ""
    /\ alertMessage' = ""
    /\ DraftUnchanged
    /\ UNCHANGED <<assignments, db, snapshotPending>>
    /\ UNCHANGED <<viewingGroupId, classesDb, classes, groupsDb,
                   assignmentGroups, localGroups, draggedGroupIndex,
                   consoleError>>
    /\ UNCHANGED <<compileVars, studentVars, storeVars, formVars, rosterVars>>

\* a click on a folder card of the root view
OpenFolder(index) ==
    /\ ~showAssignmentModal
    /\ ClassViewOpen
    /\ viewingGroupId = ""
    /\ draggedGroupIndex = 0
    /\ viewingGroupId' = localGroups[index].id
    /\ alertMessage' = ""
    /\ DraftUnchanged
    /\ UNCHANGED <<assignments, db, snapshotPending>>
    /\ UNCHANGED <<selectedClassId, classesDb, classes, groupsDb,
                   assignmentGroups, localGroups, draggedGroupIndex,
                   consoleError>>
    /\ UNCHANGED <<compileVars, studentVars, storeVars, formVars, rosterVars>>

\* the "Assignments" breadcrumb
BackToRoot ==
    /\ ~showAssignmentModal
    /\ ClassViewOpen
    /\ viewingGroupId # ""
    /\ viewingGroupId' = ""
    /\ alertMessage' = ""
    /\ DraftUnchanged
    /\ UNCHANGED <<assignments, db, snapshotPending>>
    /\ UNCHANGED <<selectedClassId, classesDb, classes, groupsDb,
                   assignmentGroups, localGroups, draggedGroupIndex,
                   consoleError>>
    /\ UNCHANGED <<compileVars, studentVars, storeVars, formVars, rosterVars>>

\* A faulty delete: the folder's assignments are deleted with it
handleDeleteAssignmentGroupCascading(groups, docs, id) ==
    [groups |-> SelectSeq(groups, LAMBDA g : g.id # id),
     assignments |-> SelectSeq(docs, LAMBDA a : a.groupId # id)]

\* App.handleDeleteAssignmentGroup: deleteDoc(doc(db, 'assignmentGroups',
\* id)); the outcome for the two collections
handleDeleteAssignmentGroup(groups, docs, id) ==
    [groups |-> SelectSeq(groups, LAMBDA g : g.id # id),
     assignments |-> docs]

\* handleDeleteFolder, confirmed in the dialog the trash button of a folder
\* card opens (deleteFolderId is that folder's id)
handleDeleteFolder(deleteFolderId) ==
    LET result == handleDeleteAssignmentGroup(groupsDb, db, deleteFolderId) IN
    /\ ~showAssignmentModal
    /\ ClassViewOpen
    /\ viewingGroupId = ""
    /\ draggedGroupIndex = 0
    /\ \E i \in DOMAIN localGroups : localGroups[i].id = deleteFolderId
    /\ groupsDb' = result.groups
    /\ db' = result.assignments
    /\ snapshotPending' = (snapshotPending \/ db' # db)
    /\ alertMessage' = ""
    /\ DraftUnchanged
    /\ UNCHANGED assignments
    /\ UNCHANGED <<selectedClassId, viewingGroupId, classesDb, classes,
                   assignmentGroups, localGroups, draggedGroupIndex,
                   consoleError>>
    /\ UNCHANGED <<compileVars, studentVars, storeVars, formVars, rosterVars>>

handleDragStart(index) ==
    /\ ~showAssignmentModal
    /\ ClassViewOpen
    /\ viewingGroupId = ""
    /\ draggedGroupIndex = 0
    /\ draggedGroupIndex' = index
    /\ alertMessage' = ""
    /\ DraftUnchanged
    /\ UNCHANGED <<assignments, db, snapshotPending>>
    /\ UNCHANGED <<selectedClassId, viewingGroupId, classesDb, classes,
                   groupsDb, assignmentGroups, localGroups, consoleError>>
    /\ UNCHANGED <<compileVars, studentVars, storeVars, formVars, rosterVars>>

\* newGroups.splice(draggedGroupIndex, 1); newGroups.splice(index, 0, item)
MoveTo(list, from, to) ==
    LET rest == RemoveAt(list, from) IN
    SubSeq(rest, 1, to - 1) \o <<list[from]>> \o SubSeq(rest, to, Len(rest))

\* the dragged card passes over the card at index.  (With the dragged
\* position beyond the list, after a snapshot has shortened it, the handler
\* inserts undefined and rendering the list throws: nothing is written.)
handleDragOver(index) ==
    /\ draggedGroupIndex # 0
    /\ draggedGroupIndex # index
    /\ draggedGroupIndex \in DOMAIN localGroups
    /\ localGroups' = MoveTo(localGroups, draggedGroupIndex, index)
    /\ draggedGroupIndex' = index
    /\ alertMessage' = ""
    /\ DraftUnchanged
    /\ UNCHANGED <<assignments, db, snapshotPending>>
    /\ UNCHANGED <<selectedClassId, viewingGroupId, classesDb, classes,
                   groupsDb, assignmentGroups, consoleError>>
    /\ UNCHANGED <<compileVars, studentVars, storeVars, formVars, rosterVars>>

\* A faulty reorder: one update per folder, the missing ones skipped
handleReorderAssignmentGroupsOneByOne(docs, groups) ==
    [groups |->
        [k \in DOMAIN docs |->
            IF \E i \in DOMAIN groups : groups[i].id = docs[k].id
            THEN [docs[k] EXCEPT !.order =
                     (CHOOSE i \in DOMAIN groups :
                          groups[i].id = docs[k].id) - 1]
            ELSE docs[k]],
     failed |-> \E i \in DOMAIN groups :
                   \A k \in DOMAIN docs : docs[k].id # groups[i].id]

\* App.handleReorderAssignmentGroups: one writeBatch with an update of
\* {order: index} per listed folder.  The commit applies all updates, or,
\* when one of the documents does not exist, none (the catch logs it).
handleReorderAssignmentGroups(docs, groups) ==
    LET failed == \E i \in DOMAIN groups :
                      \A k \in DOMAIN docs : docs[k].id # groups[i].id
    IN [groups |->
           IF failed THEN docs
           ELSE [k \in DOMAIN docs |->
                    IF \E i \in DOMAIN groups : groups[i].id = docs[k].id
                    THEN [docs[k] EXCEPT !.order =
                             (CHOOSE i \in DOMAIN groups :
                                  groups[i].id = docs[k].id) - 1]
                    ELSE docs[k]],
        failed |-> failed]

handleDragEnd ==
    LET result == handleReorderAssignmentGroups(groupsDb, localGroups) IN
    /\ draggedGroupIndex # 0
    /\ draggedGroupIndex' = 0
    /\ groupsDb' = result.groups
    /\ consoleError' = result.failed
    /\ alertMessage' = ""
    /\ DraftUnchanged
    /\ UNCHANGED <<assignments, db, snapshotPending>>
    /\ UNCHANGED <<selectedClassId, viewingGroupId, classesDb, classes,
                   assignmentGroups, localGroups>>
    /\ UNCHANGED <<compileVars, studentVars, storeVars, formVars, rosterVars>>

\* onSnapshot(collection(db, 'assignmentGroups')), and the effect that
\* follows a change of assignmentGroups
SnapshotGroups ==
    /\ assignmentGroups # groupsDb
    /\ assignmentGroups' = groupsDb
    /\ localGroups' = SyncedLocalGroups(groupsDb, selectedClassId, localGroups)
    /\ alertMessage' = ""
    /\ DraftUnchanged
    /\ UNCHANGED <<assignments, db, snapshotPending>>
    /\ UNCHANGED <<selectedClassId, viewingGroupId, classesDb, classes,
                   groupsDb, draggedGroupIndex, consoleError>>
    /\ UNCHANGED <<compileVars, studentVars, storeVars, formVars, rosterVars>>

\* onSnapshot(collection(db, 'classes'))
SnapshotClasses ==
    /\ classes # classesDb
    /\ classes' = classesDb
    /\ alertMessage' = ""
    /\ DraftUnchanged
    /\ UNCHANGED <<assignments, db, snapshotPending>>
    /\ UNCHANGED <<selectedClassId, viewingGroupId, classesDb, groupsDb,
                   assignmentGroups, localGroups, draggedGroupIndex,
                   consoleError>>
    /\ UNCHANGED <<compileVars, studentVars, storeVars, formVars, rosterVars>>

\* App.handleDeleteClass: one batch deletes the class, its assignments, its
\* folders and the submissions to its assignments
handleDeleteClass(classIds, docs, groups, subs, classId) ==
    LET assignmentIds ==
            {docs[k].id : k \in {j \in DOMAIN docs : docs[j].classId = classId}}
    IN [classes |-> classIds \ {classId},
        assignments |-> SelectSeq(docs, LAMBDA a : a.classId # classId),
        groups |-> SelectSeq(groups, LAMBDA g : g.classId # classId),
        submissions |->
            SelectSeq(subs, LAMBDA x : x.assignmentId \notin assignmentIds)]

\* the class is deleted in another session of the application
DeleteClass(classId) ==
    LET result == handleDeleteClass(classesDb, db, groupsDb, subDb, classId) IN
    /\ classId \in classesDb
    /\ classesDb' = result.classes
    /\ db' = result.assignments
    /\ groupsDb' = result.groups
    /\ subDb' = result.submissions
    /\ snapshotPending' = (snapshotPending \/ db' # db)
    /\ DraftUnchanged
    /\ UNCHANGED <<assignments, alertMessage>>
    /\ UNCHANGED <<selectedClassId, viewingGroupId, classes,
                   assignmentGroups, localGroups, draggedGroupIndex,
                   consoleError>>
    /\ UNCHANGED <<submissions, teacherSubmissions, selectedSubmission>>
    /\ UNCHANGED <<compileVars, studentVars, formVars, rosterVars>>

InitFolders ==
    /\ InitTeacher
    /\ InitStudent
    /\ InitCompileIdle
    /\ InitStore
    /\ InitDashboard

NextFolders ==
    \/ \E c \in classes : SelectClass(c)
    \/ CloseClass
    \/ \E i \in DOMAIN localGroups : OpenFolder(i)
    \/ BackToRoot
    \/ \E i \in DOMAIN localGroups : handleDeleteFolder(localGroups[i].id)
    \/ \E i \in DOMAIN localGroups : handleDragStart(i)
    \/ \E i \in DOMAIN localGroups : handleDragOver(i)
    \/ handleDragEnd
    \/ SnapshotGroups
    \/ SnapshotClasses
    \/ \E c \in classesDb : DeleteClass(c)
    \/ OpenCreateAssignment
    \/ \E k \in DOMAIN assignments : handleEditAssignment(k)
    \/ \E v \in Titles : SetTitle(v)
    \/ \E v \in DueDates : SetDueDate(v)
    \/ handleSaveAssignment
    \/ CloseAssignmentModal
    \/ Snapshot

SpecFolders == InitFolders /\ [][NextFolders]_vars

(***************************************************************************)
(* The assignments tab of the StudentPortal, over the lists of a student   *)
(* session that has received the snapshots of the collections.             *)
(***************************************************************************)
\* assignments.filter(a => a.classId === selectedClassId)
classAssignments(list, classId) ==
    SelectSeq(list, LAMBDA a : a.classId = classId)

\* assignmentGroups.filter(g => g.classId === selectedClassId)
classGroups(groups, classId) ==
    SelectSeq(groups, LAMBDA g : g.classId = classId)

\* the loose list of the root view: classAssignments.filter(a => !a.groupId)
StudentLooseAssignments(list, classId) ==
    SelectSeq(classAssignments(list, classId), LAMBDA a : a.groupId = "")

\* the list inside the folder the student has opened:
\* classAssignments.filter(a => a.groupId === viewingGroupId)
StudentFolderAssignments(list, classId, groupId) ==
    SelectSeq(classAssignments(list, classId), LAMBDA a : a.groupId = groupId)

\* the ids of the assignments the student can get to: the loose ones and
\* those in the folders shown at the root
StudentListedIds(list, groups, classId) ==
    {StudentLooseAssignments(list, classId)[k].id :
        k \in DOMAIN StudentLooseAssignments(list, classId)}
    \cup UNION {{StudentFolderAssignments(list, classId, g.id)[k].id :
                    k \in DOMAIN StudentFolderAssignments(list, classId, g.id)} :
                g \in {classGroups(groups, classId)[i] :
                          i \in DOMAIN classGroups(groups, classId)}}

(***************************************************************************)
(* SpecFolderOrder: creating, renaming, deleting and reordering the        *)
(* folders of a class.                                                     *)
(***************************************************************************)
MaxFolders == 3   \* folder documents in the collection

\* `grp_${Date.now()}`: the id of the folder created at tick t, longer than
\* 15 characters in the program
FolderIdAt(t) == <<"grp_0", "grp_1", "grp_2", "grp_3", "grp_4", "grp_5">>[t + 1]

\* App.handleCreateAssignmentGroup for an id longer than 15 characters:
\* setDoc(doc(db, 'assignmentGroups', id), data)
handleCreateAssignmentGroup(docs, group) ==
    IF \E k \in DOMAIN docs : docs[k].id = group.id
    THEN [k \in DOMAIN docs |->
             IF docs[k].id = group.id THEN group ELSE docs[k]]
    ELSE Append(docs, group)

\* App.handleUpdateAssignmentGroup: updateDoc(doc(db, 'assignmentGroups',
\* id), data); it fails, writing nothing, when the document does not exist
handleUpdateAssignmentGroup(docs, group) ==
    [k \in DOMAIN docs |-> IF docs[k].id = group.id THEN group ELSE docs[k]]

\* handleSaveFolder with a title typed in: editingFolderId is "" (null)
\* after the New Folder button and a folder's id after its edit button
handleSaveFolder(editingFolderId) ==
    LET found == SelectSeq(assignmentGroups,
                           LAMBDA g : g.id = editingFolderId)
    IN
    /\ ~showAssignmentModal
    /\ ClassViewOpen
    /\ viewingGroupId = ""
    /\ draggedGroupIndex = 0
    /\ IF editingFolderId # ""
       THEN /\ groupsDb' = IF found # <<>>
                           THEN handleUpdateAssignmentGroup(groupsDb, found[1])
                           ELSE groupsDb
            /\ UNCHANGED now
       ELSE /\ now < MaxTime
            /\ Len(groupsDb) < MaxFolders
            /\ groupsDb' = handleCreateAssignmentGroup(
                               groupsDb,
                               Folder(FolderIdAt(now), selectedClassId,
                                      Len(localGroups)))
            /\ now' = now + 1
    /\ alertMessage' = ""
    /\ UNCHANGED <<showAssignmentModal, showPreviewModal, editingAssignmentId,
                   newAssignment, tempQuestionGroups, draftAlias,
                   tempQuestionText, tempCorrectAnswer, assignments, db,
                   snapshotPending>>
    /\ UNCHANGED <<selectedClassId, viewingGroupId, classesDb, classes,
                   assignmentGroups, localGroups, draggedGroupIndex,
                   consoleError>>
    /\ UNCHANGED <<compileVars, studentVars, storeVars, formVars, rosterVars>>

NextFolderOrder ==
    \/ \E c \in classes : SelectClass(c)
    \/ handleSaveFolder("")
    \/ \E i \in DOMAIN localGroups : handleSaveFolder(localGroups[i].id)
    \/ \E i \in DOMAIN localGroups : handleDeleteFolder(localGroups[i].id)
    \/ \E i \in DOMAIN localGroups : handleDragStart(i)
    \/ \E i \in DOMAIN localGroups : handleDragOver(i)
    \/ handleDragEnd
    \/ SnapshotGroups

SpecFolderOrder == InitFolders /\ [][NextFolderOrder]_vars

(***************************************************************************)
(* Claims about the bracket extraction (SpecCompile).                      *)
(***************************************************************************)
\* The bracketed tokens of a content string, stated without the scan: a token
\* closes at a "]" and opens at the leftmost "[" from which that "]" is the
\* first "]" and no line terminator lies in between.
TokenStarts(s, j) ==
    {i \in 1..(j - 1) :
        /\ s[i] = "["
        /\ \A k \in (i + 1)..(j - 1) : s[k] \notin ({"]"} \cup LineTerminators)}

TokenEnds(s) == {j \in 1..Len(s) : s[j] = "]" /\ TokenStarts(s, j) # {}}

SetMin(S) == CHOOSE x \in S : \A y \in S : x <= y

\* the n-th smallest element of a set of numbers
NthOf(S, n) == CHOOSE x \in S : Cardinality({y \in S : y < x}) = n - 1

\* C2: the extraction yields exactly one question per bracketed token, in
\* left-to-right order: the n-th question's text is the n-th token with its
\* brackets, its correctAnswer the token's inner text, its type
\* NOTES_COMPLETION; content without a token yields the empty list.
C2_OneQuestionPerToken ==
    cPc = "done" =>
        /\ Len(cQuestions) = Cardinality(TokenEnds(cContent))
        /\ \A n \in 1..Len(cQuestions) :
              LET j == NthOf(TokenEnds(cContent), n)
                  i == SetMin(TokenStarts(cContent, j))
              IN /\ cQuestions[n].text = SubSeq(cContent, i, j)
                 /\ cQuestions[n].correctAnswer = SubSeq(cContent, i + 1, j - 1)
                 /\ cQuestions[n].type = "NOTES_COMPLETION"

(***************************************************************************)
(* Claims about saving and previewing a draft (Spec).                      *)
(***************************************************************************)
\* a step of handleSaveAssignment: the modal closes and the draft is reset
SaveStep ==
    /\ showAssignmentModal
    /\ ~showAssignmentModal'
    /\ newAssignment' # newAssignment

\* the id under which that step writes the assignment
SavedId ==
    IF editingAssignmentId # None THEN editingAssignmentId
    ELSE AssignmentId(now)

HasDoc(docs, id) == \E k \in DOMAIN docs : docs[k].id = id
DocOf(docs, id) == docs[CHOOSE k \in DOMAIN docs : docs[k].id = id]

\* a question list without its identifiers
WithoutIds(qs) == [i \in 1..Len(qs) |-> [qs[i] EXCEPT !.id = <<>>]]
TextsAndAnswers(qs) ==
    [i \in 1..Len(qs) |->
        [text |-> qs[i].text, correctAnswer |-> qs[i].correctAnswer]]
AnswersOf(qs) == [i \in 1..Len(qs) |-> qs[i].correctAnswer]

\* the compiler's output over a content (nothing for unset content)
CompilerOutput(content) ==
    WithoutIds(SaveGeneratedQuestions(OrEmpty(content), 0, 0))

\* C1: in every saved assignment, every NOTES_COMPLETION group holds
\* exactly the compiler's output over its content, whatever the content
\* (empty or unset included) and whatever questions the group held before.
C1_NotesGroupsRecompiledOnSave ==
    \A k \in DOMAIN db :
        \A gi \in DOMAIN db[k].questionGroups :
            LET g == db[k].questionGroups[gi] IN
            g.type = "NOTES_COMPLETION" =>
                WithoutIds(g.questions) = CompilerOutput(g.content)

\* C3: whenever a draft is saved, the question list the save stores for a
\* NOTES_COMPLETION group and the one the preview shows for that group of
\* the same draft agree in count, order, text and correctAnswer.
C3_PreviewAgreesWithSave ==
    [][SaveStep =>
          LET saved == DocOf(db', SavedId).questionGroups
              shown == getPreviewAssignment.questionGroups
          IN /\ Len(saved) = Len(shown)
             /\ \A gi \in DOMAIN saved :
                   saved[gi].type = "NOTES_COMPLETION" =>
                       TextsAndAnswers(saved[gi].questions)
                           = TextsAndAnswers(shown[gi].questions)]_vars

\* a draft with a NOTES_COMPLETION group of content "[a][b]" has just been
\* saved with its two generated questions
C3_Witness ==
    /\ snapshotPending
    /\ \E k \in DOMAIN db :
          \E gi \in DOMAIN db[k].questionGroups :
              LET g == db[k].questionGroups[gi] IN
              /\ g.type = "NOTES_COMPLETION"
              /\ Len(g.questions) = 2
              /\ g.questions[2].text = <<"[", "b", "]">>
              /\ g.questions[2].id[1] = "q"

\* C4: saving again an assignment re-opened for edit, with a
\* NOTES_COMPLETION group whose content is the content that was saved,
\* stores for that group a question list of the same count, order and
\* correctAnswer values as the one saved before.
C4_ResaveSameContentSameQuestions ==
    [][(SaveStep /\ editingAssignmentId # None
            /\ HasDoc(db, editingAssignmentId)) =>
          LET before == DocOf(db, editingAssignmentId).questionGroups
              after == DocOf(db', editingAssignmentId).questionGroups
          IN \A i \in DOMAIN before, j \in DOMAIN after :
                (/\ before[i].id = after[j].id
                 /\ before[i].type = "NOTES_COMPLETION"
                 /\ after[j].type = "NOTES_COMPLETION"
                 /\ before[i].content = after[j].content)
                => AnswersOf(after[j].questions)
                       = AnswersOf(before[i].questions)]_vars

(***************************************************************************)
(* Claims about handleSubmit.                                              *)
(***************************************************************************)
\* The step in which handleSubmit hands a submission to onSubmit
SubmitStep == selectedAssignment # None /\ Len(submitted') = Len(submitted) + 1

NewSubmission == submitted'[Len(submitted')]

\* C5: a WRITING or SPEAKING submission is SUBMITTED with no grade and no
\* report, whatever the answers; a READING or LISTENING submission is GRADED
\* with a grade and a report.
C5_AutoGradeOnlyReadingListening ==
    [][SubmitStep =>
         LET a == selectedAssignment[1]
             sub == NewSubmission
         IN /\ a.type \in {"WRITING", "SPEAKING"} =>
                  /\ sub.status = "SUBMITTED"
                  /\ sub.grade = Undef
                  /\ ~sub.report.defined
            /\ a.type \in {"READING", "LISTENING"} =>
                  /\ sub.status = "GRADED"
                  /\ sub.grade # Undef
                  /\ sub.report.defined]_vars

\* a submission with an answer in it was left ungraded
C5_Witness ==
    /\ submitted # <<>>
    /\ submitted[1].status = "SUBMITTED"
    /\ DOMAIN submitted[1].answers # {}
    /\ \E id \in DOMAIN submitted[1].answers : submitted[1].answers[id] = <<"A">>

\* The flattened question list as positions: <<0, i>> in the legacy list,
\* <<g, i>> in group g
QuestionPositions(a) ==
    IF a.hasQuestionGroups
    THEN UNION {{<<g, i>> : i \in 1..Len(a.questionGroups[g].questions)} :
                   g \in 1..Len(a.questionGroups)}
    ELSE IF a.hasQuestions THEN {<<0, i>> : i \in 1..Len(a.questions)}
    ELSE {}

QuestionAt(a, p) ==
    IF p[1] = 0 THEN a.questions[p[2]]
    ELSE a.questionGroups[p[1]].questions[p[2]]

\* C6: the grade of an auto-graded submission is "<c>/<t>", t the number of
\* questions of the assignment (answered or not), c the number graded
\* correct, 0 <= c <= t; the report has an entry for every question id.
C6_GradeFraction ==
    [][(SubmitStep /\ NewSubmission.status = "GRADED") =>
         LET a == selectedAssignment[1]
             sub == NewSubmission
             t == Cardinality(QuestionPositions(a))
             ids == {QuestionAt(a, p).id : p \in QuestionPositions(a)}
             c == Cardinality({p \in QuestionPositions(a) :
                                  sub.report.of[QuestionAt(a, p).id].isCorrect})
         IN /\ DOMAIN sub.report.of = ids
            /\ c >= 0 /\ c <= t
            /\ sub.grade = NumToString(c) \o <<"/">> \o NumToString(t)]_vars

\* a graded submission of four questions in two groups, one right, not all
\* of them answered
C6_Witness ==
    /\ submitted # <<>>
    /\ submitted[1].status = "GRADED"
    /\ submitted[1].grade = <<"1", "/", "4">>
    /\ Cardinality(DOMAIN submitted[1].answers) = 2

\* The pieces of s between its commas, stated by the comma positions
Separators(s) == {0, Len(s) + 1} \cup {i \in 1..Len(s) : s[i] = ","}

Pieces(s) ==
    {<<l, r>> \in Separators(s) \X Separators(s) :
        l < r /\ \A m \in Separators(s) : ~(l < m /\ m < r)}

\* how many pieces of s trim to e
PieceCount(s, e) ==
    Cardinality({p \in Pieces(s) : trim(SubSeq(s, p[1] + 1, p[2] - 1)) = e})

TrimmedPieces(s) == {trim(SubSeq(s, p[1] + 1, p[2] - 1)) : p \in Pieces(s)}

\* the sorted lists of the trimmed elements are equal: the same elements, each
\* as often
SameElements(s, t) ==
    \A e \in TrimmedPieces(s) \cup TrimmedPieces(t) :
        PieceCount(s, e) = PieceCount(t, e)

\* The only question of a SpecGrade assignment, and its result
TheQuestion == AllQuestions(selectedAssignment[1])[1]

TheResult == NewSubmission.report.of[TheQuestion.id]

\* C7: a multi-select MCQ answer (maxSelection > 1) is correct exactly when
\* answer and key have the same trimmed comma-separated elements, in any
\* order.
C7_MultiSelectOrderInsensitive ==
    [][(SubmitStep /\ TheQuestion.type = "MCQ"
                   /\ TheQuestion.maxSelection > 1) =>
         (TheResult.isCorrect <=>
              SameElements(AnswerOrEmpty(answers, TheQuestion),
                           KeyOrEmpty(TheQuestion)))]_vars

\* the answer "a,A" was graded correct against the key "A,a"
C7_Witness ==
    /\ submitted # <<>>
    /\ \E id \in DOMAIN submitted[1].report.of :
          LET r == submitted[1].report.of[id]
          IN /\ r.isCorrect
             /\ r.studentAnswer = <<"a", ",", "A">>
             /\ r.correctAnswer = <<"A", ",", "a">>

\* two characters are the same letter in either case
SameLetter(x, y) == x = y \/ {x, y} \in {{"A", "a"}, {"D", "d"}}

EqualIgnoringCase(s, t) ==
    Len(s) = Len(t) /\ \A i \in 1..Len(s) : SameLetter(s[i], t[i])

\* C8: a FILL_IN_BLANKS or NOTES_COMPLETION answer is correct exactly when
\* the trimmed answer and the trimmed key are equal ignoring letter case.
C8_TextCaseInsensitive ==
    [][(SubmitStep /\ TheQuestion.type \in {"FILL_IN_BLANKS", "NOTES_COMPLETION"}) =>
         (TheResult.isCorrect <=>
              EqualIgnoringCase(trim(AnswerOrEmpty(answers, TheQuestion)),
                                trim(KeyOrEmpty(TheQuestion))))]_vars

\* the answer " A" was graded correct against the key "a"
C8_Witness ==
    /\ submitted # <<>>
    /\ \E id \in DOMAIN submitted[1].report.of :
          LET r == submitted[1].report.of[id]
          IN /\ r.isCorrect
             /\ id \in DOMAIN submitted[1].answers
             /\ submitted[1].answers[id] = <<" ", "A">>
             /\ r.correctAnswer = <<"a">>

\* C9: an answer to a question of any other type (single-answer MCQ and the
\* seven remaining types) is correct exactly when the trimmed answer equals
\* the trimmed key character for character, case included.
C9_OtherTypesExact ==
    [][(SubmitStep /\ TheQuestion.type \notin {"FILL_IN_BLANKS", "NOTES_COMPLETION"}
                   /\ ~(TheQuestion.type = "MCQ" /\ TheQuestion.maxSelection > 1)) =>
         (TheResult.isCorrect <=>
              LET sa == trim(AnswerOrEmpty(answers, TheQuestion))
                  ca == trim(KeyOrEmpty(TheQuestion))
              IN Len(sa) = Len(ca) /\ \A i \in 1..Len(sa) : sa[i] = ca[i])]_vars

\* the answer "a" was graded incorrect against the key "A"
C9_Witness ==
    /\ submitted # <<>>
    /\ \E id \in DOMAIN submitted[1].report.of :
          LET r == submitted[1].report.of[id]
          IN /\ ~r.isCorrect
             /\ r.studentAnswer = <<"a">>
             /\ r.correctAnswer = <<"A">>

\* C10: grading is total: in every state in which an assignment is being
\* taken, grading its questions with the current answers map throws nothing,
\* and the submit step stores a result for the question; a missing answer and
\* a missing correctAnswer are graded as the empty string, so an unanswered
\* question is correct only when the trimmed key is empty.
C10_GradingTotal ==
    [][selectedAssignment # None =>
         /\ ~GradingThrows(answers, AllQuestions(selectedAssignment[1]))
         /\ SubmitStep =>
               /\ TheQuestion.id \in DOMAIN NewSubmission.report.of
               /\ TheQuestion.id \notin DOMAIN answers =>
                     /\ TheResult.studentAnswer = <<>>
                     /\ TheResult.isCorrect =>
                           (TheQuestion.correctAnswer = Undef
                            \/ \A i \in 1..Len(TheQuestion.correctAnswer) :
                                  TheQuestion.correctAnswer[i] \in WhiteSpace)
               /\ TheQuestion.correctAnswer = Undef =>
                     /\ TheResult.correctAnswer = <<>>
                     /\ TheResult.isCorrect <=>
                           trim(AnswerOrEmpty(answers, TheQuestion)) = <<>>]_vars

\* an unanswered question without a correctAnswer was graded, and correct
C10_Witness ==
    /\ submitted # <<>>
    /\ DOMAIN submitted[1].answers = {}
    /\ \E id \in DOMAIN submitted[1].report.of :
          LET r == submitted[1].report.of[id]
          IN r.isCorrect /\ r.correctAnswer = <<>> /\ r.studentAnswer = <<>>


(***************************************************************************)
(* Claims about the submissions collection (SpecStore)                     *)
(***************************************************************************)
\* the grades handleSubmit can compute for the assignments at hand
FractionGrades ==
    {GradeString(c, t) : c \in 0..MaxSubQuestions, t \in 0..MaxSubQuestions}

\* C11: every stored submission with status SUBMITTED has neither a grade
\* nor a report, and every stored submission with a report has status
\* GRADED and a grade of the form "<correct>/<total>".
C11_StoredStatusGradeReport ==
    \A k \in DOMAIN subDb :
        /\ subDb[k].status = "SUBMITTED" =>
              /\ subDb[k].grade = Undef
              /\ ~subDb[k].report.defined
        /\ subDb[k].report.defined =>
              /\ subDb[k].status = "GRADED"
              /\ subDb[k].grade \in FractionGrades

\* C11 witness: the collection holds an auto-graded submission with its
\* report next to a submission the teacher has graded by hand
C11_Witness ==
    \E k, l \in DOMAIN subDb :
        /\ subDb[k].report.defined
        /\ subDb[k].status = "GRADED"
        /\ ~subDb[l].report.defined
        /\ subDb[l].status = "GRADED"
        /\ subDb[l].feedback # Undef

\* C12: at most one stored submission exists per (studentId, assignmentId),
\* however starting and submitting interleave with the arrival of the
\* snapshots.
C12_OneSubmissionPerAssignment ==
    \A k, l \in DOMAIN subDb :
        (/\ subDb[k].studentId = subDb[l].studentId
         /\ subDb[k].assignmentId = subDb[l].assignmentId) => k = l


(***************************************************************************)
(* Claims about the validation of a save (Spec)                            *)
(***************************************************************************)
\* the drafts the validation has to turn down
InvalidDraft ==
    \/ newAssignment.title = ""
    \/ newAssignment.dueDate = ""
    \/ newAssignment.type = "WRITING" /\ newAssignment.writingPrompt = ""

\* C13: handleSaveAssignment run on a draft without title, without due date,
\* or of type WRITING without essay prompt reports a message, writes
\* nothing to the collection and leaves newAssignment, tempQuestionGroups,
\* editingAssignmentId and the open modal as they are.
C13_ValidationFailFast ==
    [][(handleSaveAssignment /\ InvalidDraft) =>
          /\ alertMessage' # ""
          /\ db' = db
          /\ snapshotPending' = snapshotPending
          /\ newAssignment' = newAssignment
          /\ tempQuestionGroups' = tempQuestionGroups
          /\ editingAssignmentId' = editingAssignmentId
          /\ showAssignmentModal' = showAssignmentModal]_vars

\* C13 witness: a WRITING draft with title and due date but no prompt has
\* been turned down, and a draft with question groups but no title too
C13_Witness ==
    /\ alertMessage # ""
    /\ showAssignmentModal
    /\ \/ /\ newAssignment.type = "WRITING"
          /\ newAssignment.title # ""
          /\ newAssignment.dueDate # ""
          /\ newAssignment.writingPrompt = ""
       \/ /\ newAssignment.title = ""
          /\ tempQuestionGroups # <<>>


(***************************************************************************)
(* Claims about the question groups of a draft and of a saved assignment   *)
(***************************************************************************)
QuestionTypesMatch(groups) ==
    \A g \in DOMAIN groups :
        \A q \in DOMAIN groups[g].questions :
            groups[g].questions[q].type = groups[g].type

\* C17: in every state of the draft and in every saved assignment each
\* question's type equals the type of the group that contains it.
C17_QuestionTypeEqualsGroupType ==
    /\ QuestionTypesMatch(tempQuestionGroups)
    /\ \A k \in DOMAIN db : QuestionTypesMatch(db[k].questionGroups)


\* C16: after handleGroupTypeChange to a new type the group's headingList
\* and matchOptions are empty.
C16_TypeChangeResetsLists ==
    [][\A i \in DOMAIN tempQuestionGroups : \A t \in BuilderTypeChoices :
          (handleGroupTypeChange(i, t) /\ t # tempQuestionGroups[i].type) =>
              /\ tempQuestionGroups'[i].headingList = <<>>
              /\ tempQuestionGroups'[i].matchOptions = <<>>]_vars


(***************************************************************************)
(* Claims about the payload of a saved assignment (Spec)                   *)
(***************************************************************************)
\* C18: every saved assignment populates exactly the payload of its own
\* skill: READING no videoUrl and no writing field; WRITING no question
\* groups, no passage and no videoUrl.
C18_OnePayloadPerSkill ==
    \A k \in DOMAIN db :
        /\ db[k].type = "READING" =>
              /\ db[k].videoUrl = ""
              /\ db[k].writingTaskType = ""
              /\ db[k].writingPrompt = ""
              /\ db[k].writingImage = ""
        /\ db[k].type = "WRITING" =>
              /\ db[k].questionGroups = <<>>
              /\ db[k].passageContent = ""
              /\ db[k].videoUrl = ""


(***************************************************************************)
(* Claims about classes and folders (SpecFolders)                          *)
(***************************************************************************)
\* C14: an assignment is written to the collection only if its classId
\* identifies a class that exists at save time.
C14_SavedClassExists ==
    [][SaveStep => DocOf(db', SavedId).classId \in classesDb]_vars

\* C15: a new assignment gets the opened folder as groupId, and saving an
\* edit of an existing assignment leaves its groupId as it was, whether
\* the edit was opened in the folder or in the root view.
C15_EditKeepsFolder ==
    [][SaveStep =>
          IF editingAssignmentId = None
          THEN /\ viewingGroupId # ""
               /\ DocOf(db', SavedId).groupId = viewingGroupId
          ELSE HasDoc(db, SavedId) =>
                  DocOf(db', SavedId).groupId = DocOf(db, SavedId).groupId]_vars

\* a step that deletes a folder, and only a folder
FolderDeleteStep ==
    /\ classesDb' = classesDb
    /\ \E k \in DOMAIN groupsDb : ~HasDoc(groupsDb', groupsDb[k].id)

\* the teacher looks at the root view of the class with every snapshot in
RootViewInSync ==
    /\ ClassViewOpen
    /\ viewingGroupId = ""
    /\ assignments = db
    /\ assignmentGroups = groupsDb

\* C19: deleting a folder deletes or changes no assignment, and every
\* assignment whose folder is gone is listed in the root view of its class
\* with the flag "Folder Missing".
C19_FolderDeleteKeepsAssignments ==
    [][/\ FolderDeleteStep => db' = db
       /\ RootViewInSync' =>
             \A k \in DOMAIN db' :
                 (/\ db'[k].classId = selectedClassId'
                  /\ db'[k].groupId # ""
                  /\ ~HasDoc(groupsDb', db'[k].groupId)) =>
                     /\ \E l \in DOMAIN LooseAssignments' :
                            LooseAssignments'[l] = db'[k]
                     /\ FolderFlag(db'[k]) = "Folder Missing"]_vars

\* C19 witness: the folder of a stored assignment has been deleted and the
\* root view lists the assignment
C19_Witness ==
    /\ RootViewInSync
    /\ \E l \in DOMAIN LooseAssignments :
          /\ LooseAssignments[l].groupId # ""
          /\ ~HasDoc(groupsDb, LooseAssignments[l].groupId)
          /\ HasDoc(db, LooseAssignments[l].id)

\* a step of handleDragEnd
DragEndStep == draggedGroupIndex # 0 /\ draggedGroupIndex' = 0

\* C20: handleReorderAssignmentGroups gives every listed folder its list
\* position as order in one step, or, when a listed folder no longer
\* exists, changes no order at all.
C20_ReorderAllOrNothing ==
    [][DragEndStep =>
          IF \E i \in DOMAIN localGroups : ~HasDoc(groupsDb, localGroups[i].id)
          THEN groupsDb' = groupsDb
          ELSE /\ DOMAIN groupsDb' = DOMAIN groupsDb
               /\ \A k \in DOMAIN groupsDb :
                     /\ groupsDb'[k].id = groupsDb[k].id
                     /\ \A i \in DOMAIN localGroups :
                           localGroups[i].id = groupsDb[k].id =>
                               groupsDb'[k].order = i - 1
                     /\ (\A i \in DOMAIN localGroups :
                            localGroups[i].id # groupsDb[k].id) =>
                               groupsDb'[k] = groupsDb[k]]_vars

\* C20 witness: a reorder that would have moved a folder to the front has
\* failed on a deleted folder, and the folder has kept its order
C20_Witness ==
    /\ consoleError
    /\ draggedGroupIndex = 0
    /\ localGroups # <<>>
    /\ HasDoc(groupsDb, localGroups[1].id)
    /\ DocOf(groupsDb, localGroups[1].id).order # 0


(***************************************************************************)
(* Claims about an abandoned edit (Spec)                                   *)
(***************************************************************************)
\* C30: once an edit has been cancelled or discarded, the teacher's
\* in-memory assignments are what they were before the edit was opened:
\* with the modal closed and no snapshot outstanding, the list delivered by
\* the last snapshot, which is the collection.
C30_AbandonedEditHasNoEffect ==
    (~showAssignmentModal /\ ~snapshotPending) => assignments = db


(***************************************************************************)
(* Claims about the life of a stored submission (SpecStore)                *)
(***************************************************************************)
\* the step of the teacher's Submit Result button on submission id
GradeStepOn(id) ==
    /\ selectedSubmission # None
    /\ selectedSubmission' = None
    /\ selectedSubmission[1].id = id

\* C26: a stored submission never goes from GRADED back to SUBMITTED, a
\* submission auto-graded at creation (one with a report) never changes
\* afterwards, and status and grade of a stored submission change only in
\* the teacher's grade action on a submission of status SUBMITTED offered
\* by the queue.
C26_StatusOnlyForward ==
    [][\A k \in DOMAIN subDb :
          /\ k \in DOMAIN subDb'
          /\ subDb'[k].id = subDb[k].id
          /\ subDb[k].status = "GRADED" => subDb'[k].status = "GRADED"
          /\ subDb[k].report.defined => subDb'[k] = subDb[k]
          /\ (\/ subDb'[k].status # subDb[k].status
              \/ subDb'[k].grade # subDb[k].grade) =>
                 /\ GradeStepOn(subDb[k].id)
                 /\ selectedSubmission[1].status = "SUBMITTED"
                 /\ subDb'[k].status = "GRADED"]_vars

\* C26 witness: the teacher's list holds an auto-graded submission, and a
\* submitted essay has been graded by the teacher
C26_Witness ==
    /\ \E k \in DOMAIN teacherSubmissions :
          /\ teacherSubmissions[k].report.defined
          /\ teacherSubmissions[k].status = "GRADED"
    /\ \E l \in DOMAIN subDb :
          /\ ~subDb[l].report.defined
          /\ subDb[l].status = "GRADED"
          /\ subDb[l].grade = <<"7">>


(***************************************************************************)
(* Claims about a save whose write fails (SpecRetry)                       *)
(***************************************************************************)
\* C22: when the write issued by a save fails, the draft (newAssignment and
\* tempQuestionGroups) still holds the entered data afterwards.
C22_DraftSurvivesFailedWrite ==
    [][handleSaveAssignmentWriteFails =>
          /\ newAssignment' = newAssignment
          /\ tempQuestionGroups' = tempQuestionGroups]_vars


(***************************************************************************)
(* Claims about the MCQ questions the builder adds (SpecMcq)               *)
(***************************************************************************)
\* the letters of a correct answer
LettersOf(correctAnswer) == split(correctAnswer)

\* C27: every letter of an added MCQ question's correctAnswer indexes an
\* entry of the question's options (A = index 0), and the letters are
\* sorted and free of duplicates.
C27_McqAnswerWithinOptions ==
    \A g \in DOMAIN tempQuestionGroups :
        \A k \in DOMAIN tempQuestionGroups[g].questions :
            LET q == tempQuestionGroups[g].questions[k]
                letters == LettersOf(q.correctAnswer)
            IN (q.type = "MCQ" /\ q.correctAnswer # Undef) =>
                  /\ \A i \in DOMAIN letters :
                        \E idx \in 0..(Len(q.options) - 1) :
                            letters[i] = <<toLetter(idx)>>
                  /\ \A i, j \in DOMAIN letters :
                        i < j => StrLess(letters[i], letters[j])


(***************************************************************************)
(* Claims about the Gradebook's analytics (SpecAnalytics)                  *)
(***************************************************************************)
\* C25: for every assignment of the class the completion rate is
\* round(100 * submissions received / roster size), 0 when the roster is
\* empty, and an integer between 0 and 100.
C25_CompletionRateWithinBounds ==
    \A i \in DOMAIN GradebookAssignments :
        LET id == GradebookAssignments[i].id
            received == Len(assignmentSubmissions(id))
            roster == Len(GradebookStudents)
        IN /\ completionRate(id) \in 0..100
           /\ roster = 0 => completionRate(id) = 0
           /\ roster > 0 => completionRate(id) = Round(100 * received, roster)


C23_QuestionStats ==
    \A i \in DOMAIN GradebookAssignments :
        LET a == GradebookAssignments[i]
            stats == questionStats(a)
            qs == AllQuestions(a)
            attempts(q) ==
                {k \in DOMAIN teacherSubmissions :
                    /\ teacherSubmissions[k].assignmentId = a.id
                    /\ teacherSubmissions[k].status = "GRADED"
                    /\ teacherSubmissions[k].report.defined
                    /\ q.id \in DOMAIN teacherSubmissions[k].report.of}
            correct(q) ==
                {k \in attempts(q) :
                    teacherSubmissions[k].report.of[q.id].isCorrect}
        IN /\ Len(stats) = Len(qs)
           /\ \A n \in DOMAIN qs :
                 Cardinality({k \in DOMAIN stats :
                                 stats[k].question = qs[n]}) = 1
           /\ \A k \in DOMAIN stats :
                 LET q == stats[k].question IN
                 /\ stats[k].attemptCount = Cardinality(attempts(q))
                 /\ stats[k].correctCount = Cardinality(correct(q))
                 /\ stats[k].accuracy =
                       IF attempts(q) = {} THEN 0
                       ELSE (200 * Cardinality(correct(q))
                                + Cardinality(attempts(q)))
                            \div (2 * Cardinality(attempts(q)))
           /\ \A k, l \in DOMAIN stats :
                 k < l => stats[k].accuracy <= stats[l].accuracy

\* two graded submissions of the first assignment, whose second question is
\* the harder one and is listed first
C23_Witness ==
    LET stats == questionStats(AnalyticsAssignments[1]) IN
    /\ Len(gradedSubmissions(AnalyticsAssignments[1].id)) = 2
    /\ stats[1].question.id = QuestionId(2)
    /\ stats[1].accuracy = 50
    /\ stats[2].accuracy = 100


(***************************************************************************)
(* Claims about the JSON import (SpecImport)                               *)
(***************************************************************************)
\* C21: an import that ends in an error leaves the draft as it was: the
\* passage content and the list of question groups are unchanged.
C21_RejectedImportChangesNothing ==
    [][((\E input \in ImportInputs : handleJsonImport(input))
            /\ alertMessage' \in {PasteAlert, FailedAlert})
          => /\ newAssignment' = newAssignment
             /\ tempQuestionGroups' = tempQuestionGroups]_vars


(***************************************************************************)
(* Claims about the order of the folders (SpecFolderOrder)                 *)
(***************************************************************************)
\* C28: the stored folders of one class have pairwise distinct order
\* values.
C28_FolderOrdersDistinct ==
    \A i, j \in DOMAIN groupsDb :
        (i # j /\ groupsDb[i].classId = groupsDb[j].classId)
            => groupsDb[i].order # groupsDb[j].order



(***************************************************************************)
(* Claims about the student's assignments tab (SpecFolders)                *)
(***************************************************************************)
\* C29: every stored assignment of a class is listed for the student who
\* has selected the class, in a folder of the class or in the loose list.
C29_EveryAssignmentListed ==
    \A c \in classesDb :
        \A k \in DOMAIN db :
            db[k].classId = c => db[k].id \in StudentListedIds(db, groupsDb, c)

=============================================================================
